---- MODULE Spec2Model ----
(***************************************************************************)
(* A model of the Kubernetes MCP server: the dispatcher call_tool of        *)
(* src/server.py and the tool operations of src/tools/*.py, run against a    *)
(* cluster API whose every call may fail.                                    *)
(*                                                                           *)
(* A Result text is the f-string that built it: [fmt, holes], fmt the        *)
(* literal template and holes the interpolated values in order (an integer   *)
(* hole stands for its decimal rendering).                                   *)
(***************************************************************************)
EXTENDS Integers, Sequences, FiniteSets, TLC

VARIABLES
    deploy,      \* cluster: each deployment's replica count and restart annotation
    namespaces,  \* cluster: the names of the namespaces
    jobs,        \* cluster: the jobs, as <<namespace, name>>
    events,      \* cluster: the events, in API order
    pods,        \* cluster: the pods, in API order
    nodes,       \* cluster: the nodes, in API order
    files,       \* the local file system: the transient files that exist
    inv          \* the invocations of call_tool, one per caller

vars == <<deploy, namespaces, jobs, events, pods, nodes, files, inv>>

\* What the read operations leave alone.
collections == <<events, pods, nodes>>

(* ------------------------------ bounds --------------------------------- *)

MaxReplicas == 2
MaxTime == 1
MaxEvents == 3
MaxTs == 3
MaxLimit == 3
MaxYamlLen == 2
MaxNodes == 2
MaxPods == 2

(* --------------------------- values and helpers ------------------------ *)

Procs == {1, 2}

\* Python None, as the value of a string-typed argument or variable.
NoneVal == "<None>"
\* A value of the wrong type where a string is expected (an unhashable list).
WrongType == "<list>"

\* Python truthiness of an optional string: None and "" are falsy.
Truthy(x) == x \notin {NoneVal, ""}

\* An argument bag: the keys present, and the value of each present key.
Has(args, k) == k \in args.has
\* arguments.get(k, d)
Get(args, k, d) == IF Has(args, k) THEN args.val[k] ELSE d
\* arguments.get(k): None when absent
GetOrNone(args, k) == Get(args, k, NoneVal)

Text(fmt, holes) == [fmt |-> fmt, holes |-> holes]

Min(a, b) == IF a <= b THEN a ELSE b
Max(a, b) == IF a >= b THEN a ELSE b

\* Python's s[:k] on a list: a negative k counts from the end.
Slice(s, k) ==
    IF k >= 0 THEN SubSeq(s, 1, Min(k, Len(s)))
    ELSE SubSeq(s, 1, Max(Len(s) + k, 0))

(* ------------------------------ cluster API ---------------------------- *)

\* The status an API call ends with: the status the cluster state gives it,
\* unless a fault (any other failure of the API: 0 is no fault) overrides it.
Faults == {0, 404, 500}
Status(natural, fault) == IF fault = 0 THEN natural ELSE fault

Reason(status) ==
    CASE status = 404 -> "Not Found"
      [] status = 409 -> "Conflict"
      [] status = 500 -> "Internal Server Error"
      [] OTHER -> "OK"

\* e.reason and e.body of an ApiException.
ApiError(fmt, status) == Text(fmt, <<Reason(status), "body">>)

\* One external call: the API method (or the kubectl command), its arguments,
\* the status it ended with and the items a list call returned.
CallR(api, arg, status, resp) ==
    [api |-> api, arg |-> arg, status |-> status, resp |-> resp]
Call(api, arg, status) == CallR(api, arg, status, <<>>)

(* ------------------------------ cluster state -------------------------- *)

\* The deployments of the cluster, by <<namespace, name>>; no operation of
\* the server creates or deletes one.
DeployKeys == {<<"default", "web">>, <<"dev", "web">>}

\* The namespaces the cluster always holds, and those create_namespace and
\* delete_namespace are called with.
BaseNamespaces == {"default", "dev"}
NsNames == {"team-a", "team-b"}

\* No deployment read yet.
NoDep == [replicas |-> 0, restartedAt |-> 0]

(* ------------------------------ invocations ---------------------------- *)

\* One invocation of call_tool: the tool name and the argument bag it was
\* given, the deployment object it holds between a read and a patch, whether
\* it has created a transient file, the external calls it has issued so far,
\* and what it returned.
NoArgs == [has |-> {}, val |-> <<>>]
IdleInv == [pc |-> "idle", name |-> "", args |-> NoArgs, dep |-> NoDep,
            tmp |-> FALSE, calls |-> <<>>, result |-> <<>>]
Fresh(name, args) == [IdleInv EXCEPT !.pc = "run", !.name = name, !.args = args]

\* A caller submits an invocation when its previous one has returned.
CanCall(p) == inv[p].pc \in {"idle", "done"}

TextContent(text) == [type |-> "text", text |-> text]

\* return [TextContent(type="text", text=result)]
Returned(r, calls, text) ==
    [r EXCEPT !.pc = "done", !.calls = calls, !.result = <<TextContent(text)>>]

\* An exception leaves call_tool: nothing is returned.
Propagated(r, calls) == [r EXCEPT !.pc = "raised", !.calls = calls]

\* A dispatcher without the except clause: the exception leaves call_tool.
call_tool_reraise(r, name, e) == Propagated(r, r.calls)

\* except Exception as e: return [TextContent(... f"Error executing tool {name}: {str(e)}")]
call_tool_except(r, name, e) ==
    Returned(r, r.calls, Text("Error executing tool {name}: {str(e)}", <<name, e>>))

\* str(KeyError(k)) is the key in quotes.
KeyErrorStr(k) == <<"'", k, "'">>

\* The lookup of a dispatcher that reads required keys with arguments.get:
\* no key is ever missed.
MissingKeyNever(args, reqs) == NoneVal

\* The first key of reqs (in the order the branch reads them) that the bag
\* lacks: arguments[k] raises KeyError(k) there.
RECURSIVE MissingKey(_, _)
MissingKey(args, reqs) ==
    IF reqs = <<>> THEN NoneVal
    ELSE IF ~Has(args, Head(reqs)) THEN Head(reqs)
    ELSE MissingKey(args, Tail(reqs))

\* The branch's subscript reads raise: the except clause answers.
RaisesKeyError(p, name, args, reqs) ==
    /\ MissingKey(args, reqs) # NoneVal
    /\ inv' = [inv EXCEPT ![p] =
                 call_tool_except(Fresh(name, args), name,
                                  KeyErrorStr(MissingKey(args, reqs)))]
    /\ UNCHANGED <<deploy, namespaces, jobs, collections, files>>

\* The bags over the given keys: any subset of the keys present, each present
\* key with one of its values (vals is a set of records over the keys; an
\* absent key holds its value of the record none, which nothing reads).
RECURSIVE Blank(_, _, _)
Blank(v, none, absent) ==
    IF absent = {} THEN v
    ELSE LET k == CHOOSE x \in absent : TRUE
         IN  Blank([v EXCEPT ![k] = none[k]], none, absent \ {k})

Bags(keys, vals, none) ==
    { [has |-> S, val |-> Blank(v, none, keys \ S)] : S \in SUBSET keys, v \in vals }

(* ------------------------------ deployments ---------------------------- *)

\* The API applies a patch whose body is a whole deployment object: every
\* field the body carries replaces the cluster's; an annotation the body
\* lacks is kept.
ApplyPatch(cur, body) ==
    [replicas |-> body.replicas,
     restartedAt |-> IF body.restartedAt # 0 THEN body.restartedAt
                     ELSE cur.restartedAt]

DeploymentNotFound(deployment_name, namespace) ==
    Text("Deployment '{deployment_name}' not found in namespace '{namespace}'",
         <<deployment_name, namespace>>)

ScaleSuccess(deployment_name, replicas, namespace) ==
    Text("Successfully scaled deployment '{deployment_name}' to {replicas} replicas in namespace '{namespace}'",
         <<deployment_name, replicas, namespace>>)

ReadStatus(deployment_name, namespace, fault) ==
    Status(IF <<namespace, deployment_name>> \in DeployKeys THEN 200 ELSE 404, fault)

\* A scale that goes on to its patch when the read of an existing deployment
\* failed with anything but 404, with an object it never received.
scale_read_forgiving(p, r, deployment_name, replicas, namespace, fault) ==
    LET st == ReadStatus(deployment_name, namespace, fault)
        calls == <<Call("read_namespaced_deployment",
                        <<namespace, deployment_name>>, st)>>
    IN  /\ inv' = [inv EXCEPT ![p] =
             IF st = 200
             THEN [r EXCEPT !.pc = "scale_patch", !.calls = calls,
                            !.dep = deploy[<<namespace, deployment_name>>]]
             ELSE IF st = 404
             THEN Returned(r, calls, DeploymentNotFound(deployment_name, namespace))
             ELSE IF <<namespace, deployment_name>> \in DeployKeys
             THEN [r EXCEPT !.pc = "scale_patch", !.calls = calls]
             ELSE Returned(r, calls,
                           ApiError("Error scaling deployment: {e.reason} - {e.body}", st))]
        /\ UNCHANGED <<deploy, namespaces, jobs, collections, files>>

\* DeploymentTools.scale up to its patch call: read the deployment.
scale_read(p, r, deployment_name, replicas, namespace, fault) ==
    LET st == ReadStatus(deployment_name, namespace, fault)
        calls == <<Call("read_namespaced_deployment",
                        <<namespace, deployment_name>>, st)>>
    IN  /\ inv' = [inv EXCEPT ![p] =
             IF st = 200
             THEN [r EXCEPT !.pc = "scale_patch", !.calls = calls,
                            !.dep = deploy[<<namespace, deployment_name>>]]
             ELSE IF st = 404
             THEN Returned(r, calls, DeploymentNotFound(deployment_name, namespace))
             ELSE Returned(r, calls,
                           ApiError("Error scaling deployment: {e.reason} - {e.body}", st))]
        /\ UNCHANGED <<deploy, namespaces, jobs, collections, files>>

\* The body scale sends: the object it read, unchanged.
ScalePatchBodyStale(dep, replicas) == dep

\* deployment.spec.replicas = replicas: the body scale sends is the object it
\* read with the replica count overwritten.
ScalePatchBody(dep, replicas) == [dep EXCEPT !.replicas = replicas]

\* A scale that compares the object it read with the cluster's before it
\* patches, and gives up when another client changed the deployment.
scale_patch_checked(p) ==
    /\ inv[p].pc = "scale_patch"
    /\ \E fault \in Faults :
         LET r == inv[p]
             deployment_name == r.args.val.deployment_name
             replicas == r.args.val.replicas
             namespace == Get(r.args, "namespace", "default")
             key == <<namespace, deployment_name>>
             body == [r.dep EXCEPT !.replicas = replicas]
             st == Status(200, fault)
             calls == Append(r.calls,
                        Call("patch_namespaced_deployment",
                             <<namespace, deployment_name, body>>, st))
             fresh == deploy[key] = r.dep
         IN  /\ deploy' = IF st = 200 /\ fresh
                          THEN [deploy EXCEPT ![key] = ApplyPatch(@, body)]
                          ELSE deploy
             /\ inv' = [inv EXCEPT ![p] =
                  IF ~fresh
                  THEN Returned(r, r.calls,
                                ApiError("Error scaling deployment: {e.reason} - {e.body}", 409))
                  ELSE IF st = 200
                  THEN Returned(r, calls, ScaleSuccess(deployment_name, replicas, namespace))
                  ELSE IF st = 404
                  THEN Returned(r, calls, DeploymentNotFound(deployment_name, namespace))
                  ELSE Returned(r, calls,
                                ApiError("Error scaling deployment: {e.reason} - {e.body}", st))]
    /\ UNCHANGED <<namespaces, jobs, collections, files>>

\* The rest of DeploymentTools.scale: send the patch, report.

scale_patch(p) ==
    /\ inv[p].pc = "scale_patch"
    /\ \E fault \in Faults :
         LET r == inv[p]
             deployment_name == r.args.val.deployment_name
             replicas == r.args.val.replicas
             namespace == Get(r.args, "namespace", "default")
             key == <<namespace, deployment_name>>
             body == ScalePatchBody(r.dep, replicas)
             st == Status(200, fault)
             calls == Append(r.calls,
                        Call("patch_namespaced_deployment",
                             <<namespace, deployment_name, body>>, st))
         IN  /\ deploy' = IF st = 200
                          THEN [deploy EXCEPT ![key] = ApplyPatch(@, body)]
                          ELSE deploy
             /\ inv' = [inv EXCEPT ![p] =
                  IF st = 200
                  THEN Returned(r, calls, ScaleSuccess(deployment_name, replicas, namespace))
                  ELSE IF st = 404
                  THEN Returned(r, calls, DeploymentNotFound(deployment_name, namespace))
                  ELSE Returned(r, calls,
                                ApiError("Error scaling deployment: {e.reason} - {e.body}", st))]
    /\ UNCHANGED <<namespaces, jobs, collections, files>>

\* DeploymentTools.restart up to its patch call: read the deployment.
restart_read(p, r, deployment_name, namespace, fault) ==
    LET st == ReadStatus(deployment_name, namespace, fault)
        calls == <<Call("read_namespaced_deployment",
                        <<namespace, deployment_name>>, st)>>
    IN  /\ inv' = [inv EXCEPT ![p] =
             IF st = 200
             THEN [r EXCEPT !.pc = "restart_patch", !.calls = calls,
                            !.dep = deploy[<<namespace, deployment_name>>]]
             ELSE IF st = 404
             THEN Returned(r, calls, DeploymentNotFound(deployment_name, namespace))
             ELSE Returned(r, calls,
                           ApiError("Error restarting deployment: {e.reason} - {e.body}", st))]
        /\ UNCHANGED <<deploy, namespaces, jobs, collections, files>>

\* annotations["kubectl.kubernetes.io/restartedAt"] = time.strftime(...): the
\* body restart sends is the object it read with the annotation set to now.
RestartPatchBody(dep, now) == [dep EXCEPT !.restartedAt = now]

\* The rest of DeploymentTools.restart: stamp the annotation, send the patch.
\* The annotation step reads deployment.spec.template.metadata.annotations
\* and raises when the object read has no template metadata (annotated is
\* false): the last except clause answers and no patch is sent.
restart_patch(p) ==
    /\ inv[p].pc = "restart_patch"
    /\ \E fault \in Faults, now \in 1..MaxTime, annotated \in BOOLEAN :
         LET r == inv[p]
             deployment_name == r.args.val.deployment_name
             namespace == Get(r.args, "namespace", "default")
             key == <<namespace, deployment_name>>
             body == RestartPatchBody(r.dep, now)
             st == Status(200, fault)
             calls == Append(r.calls,
                        Call("patch_namespaced_deployment",
                             <<namespace, deployment_name, body>>, st))
         IN  /\ deploy' = IF annotated /\ st = 200
                          THEN [deploy EXCEPT ![key] = ApplyPatch(@, body)]
                          ELSE deploy
             /\ inv' = [inv EXCEPT ![p] =
                  IF ~annotated
                  THEN Returned(r, r.calls,
                                Text("Unexpected error: {str(e)}", <<"AttributeError">>))
                  ELSE IF st = 200
                  THEN Returned(r, calls,
                         Text("Successfully triggered rolling restart for deployment '{deployment_name}' in namespace '{namespace}'",
                              <<deployment_name, namespace>>))
                  ELSE IF st = 404
                  THEN Returned(r, calls, DeploymentNotFound(deployment_name, namespace))
                  ELSE Returned(r, calls,
                                ApiError("Error restarting deployment: {e.reason} - {e.body}", st))]
    /\ UNCHANGED <<namespaces, jobs, collections, files>>

\* The deployments of one namespace, in API order.
DeploymentsIn(namespace) ==
    IF <<namespace, "web">> \in DeployKeys
    THEN <<[name |-> "web", replicas |-> deploy[<<namespace, "web">>].replicas]>>
    ELSE <<>>

\* DeploymentTools.list_deployments
list_deployments(p, r, namespace, fault) ==
    LET st == Status(200, fault)
        calls == <<Call("list_namespaced_deployment", <<namespace>>, st)>>
        items == DeploymentsIn(namespace)
    IN  /\ inv' = [inv EXCEPT ![p] =
             IF st # 200
             THEN Returned(r, calls,
                           ApiError("Error listing deployments: {e.reason} - {e.body}", st))
             ELSE IF items = <<>>
             THEN Returned(r, calls,
                           Text("No deployments found in namespace '{namespace}'", <<namespace>>))
             ELSE Returned(r, calls,
                           Text("Deployments in namespace '{namespace}':", <<namespace, items>>))]
        /\ UNCHANGED <<deploy, namespaces, jobs, collections, files>>

(* ------------------------------ namespaces ----------------------------- *)

NamespaceCreated(name) == Text("Successfully created namespace '{name}'", <<name>>)
NamespaceExists(name) == Text("Namespace '{name}' already exists", <<name>>)

\* The generic Result create_namespace gives every failed create.
CreateNamespaceErrorGeneric(name, st) ==
    ApiError("Error creating namespace: {e.reason} - {e.body}", st)

\* except ApiException: 409 is told apart from the other failures.
CreateNamespaceError(name, st) ==
    IF st = 409 THEN NamespaceExists(name)
    ELSE ApiError("Error creating namespace: {e.reason} - {e.body}", st)

\* NamespaceTools.create_namespace: the API answers 409 for a name it holds.
create_namespace(p, r, name, labels, fault) ==
    LET st == Status(IF name \in namespaces THEN 409 ELSE 200, fault)
        calls == <<Call("create_namespace", <<name, labels>>, st)>>
    IN  /\ namespaces' = IF st = 200 THEN namespaces \cup {name} ELSE namespaces
        /\ inv' = [inv EXCEPT ![p] =
             IF st = 200 THEN Returned(r, calls, NamespaceCreated(name))
             ELSE Returned(r, calls, CreateNamespaceError(name, st))]
        /\ UNCHANGED <<deploy, jobs, collections, files>>

\* NamespaceTools.delete_namespace: the API answers 404 for a name it lacks.
delete_namespace(p, r, name, fault) ==
    LET st == Status(IF name \in namespaces THEN 200 ELSE 404, fault)
        calls == <<Call("delete_namespace", <<name>>, st)>>
    IN  /\ namespaces' = IF st = 200 THEN namespaces \ {name} ELSE namespaces
        /\ inv' = [inv EXCEPT ![p] =
             IF st = 200
             THEN Returned(r, calls,
                    Text("Successfully initiated deletion of namespace '{name}'", <<name>>))
             ELSE IF st = 404
             THEN Returned(r, calls, Text("Namespace '{name}' not found", <<name>>))
             ELSE Returned(r, calls,
                           ApiError("Error deleting namespace: {e.reason} - {e.body}", st))]
        /\ UNCHANGED <<deploy, jobs, collections, files>>

\* A list_namespaces that renders the header whatever the API returned.
list_namespaces_unguarded(p, r, fault) ==
    /\ inv' = [inv EXCEPT ![p] =
          IF Status(200, fault) # 200
          THEN Returned(r, <<Call("list_namespace", <<>>, Status(200, fault))>>,
                        ApiError("Error listing namespaces: {e.reason} - {e.body}",
                                 Status(200, fault)))
          ELSE Returned(r, <<Call("list_namespace", <<>>, 200)>>,
                        Text("Namespaces:", <<namespaces>>))]
    /\ UNCHANGED <<deploy, namespaces, jobs, collections, files>>

\* NamespaceTools.list_namespaces
list_namespaces(p, r, fault) ==
    LET st == Status(200, fault)
        calls == <<Call("list_namespace", <<>>, st)>>
    IN  /\ inv' = [inv EXCEPT ![p] =
             IF st # 200
             THEN Returned(r, calls,
                           ApiError("Error listing namespaces: {e.reason} - {e.body}", st))
             ELSE IF namespaces = {}
             THEN Returned(r, calls, Text("No namespaces found", <<>>))
             ELSE Returned(r, calls, Text("Namespaces:", <<namespaces>>))]
        /\ UNCHANGED <<deploy, namespaces, jobs, collections, files>>

(* ------------------------------ YAML operations ------------------------ *)

\* A YAML text is its lines: "---" starts a document, "a: 1" is a mapping (a
\* resource), "~" is null and "{" an unclosed flow mapping (a syntax error).
YamlLines == {"---", "a: 1", "~", "{"}
YamlSeqs(n) == UNION {[1..k -> YamlLines] : k \in 0..n}
YamlContents == YamlSeqs(MaxYamlLen)

\* The lines of a text between its document starts: the first element is
\* what precedes the first "---".
RECURSIVE Documents(_)
Documents(c) ==
    IF c = <<>> THEN << <<>> >>
    ELSE LET rest == Documents(Tail(c))
         IN  IF Head(c) = "---" THEN << <<>> >> \o rest
             ELSE << <<Head(c)>> \o rest[1] >> \o Tail(rest)

\* The parser accepts a document of mapping lines (a repeated key is kept),
\* and one of "~" lines (a plain scalar, folded over the lines); it rejects
\* an open flow mapping and a scalar mixed with mapping lines.
DocumentOk(d) ==
    /\ \A i \in 1..Len(d) : d[i] # "{"
    /\ ~ \E i, j \in 1..Len(d) : d[i] = "~" /\ d[j] = "a: 1"

YamlSyntaxOk(c) == \A i \in 1..Len(Documents(c)) : DocumentOk(Documents(c)[i])

\* The value of a document: None for no line and for the one line "~", the
\* string "~ ~" for several "~" lines, a mapping otherwise.
YamlValue(d) ==
    IF d = <<>> \/ d = <<"~">> THEN NoneVal
    ELSE IF d[1] = "~" THEN "scalar" ELSE "resource"

\* yaml.safe_load_all: the documents of a text.  Content before the first
\* "---" is a document of its own; a "---" with nothing after it is a null
\* document; the empty text has no document.
SafeLoadAll(c) ==
    LET docs == Documents(c)
        values == [i \in 1..Len(docs) |-> YamlValue(docs[i])]
    IN  IF docs[1] = <<>> THEN Tail(values) ELSE values

\* The check apply makes when it only rejects the empty list of documents.
NoValidResourcesEmptyOnly(resources) == resources = <<>>

\* not resources or all(r is None for r in resources)
NoValidResources(resources) ==
    resources = <<>> \/ \A i \in 1..Len(resources) : resources[i] = NoneVal

\* The outcomes of the local file system when apply creates and writes its
\* transient file, and of the kubectl run (as exit statuses: 0, non-zero,
\* 124 for TimeoutExpired, 127 for FileNotFoundError and 126 for any other
\* exception of subprocess.run, such as PermissionError).
FileOutcomes == {"ok", "create_fails", "write_fails"}
KubectlOutcomes == {0, 1, 124, 126, 127}

\* YamlOpsTools.apply up to the kubectl run: validate, write the transient
\* file.  The file of caller p is named p.  In the texts [x] and [v] stand
\* for the cross and check marks of the source.
apply_validate(p, r, yaml_content, io) ==
    IF ~YamlSyntaxOk(yaml_content)
    THEN /\ inv' = [inv EXCEPT ![p] =
                Returned(r, <<>>, Text("[x] YAML parsing error: {str(e)}", <<"YAMLError">>))]
         /\ UNCHANGED <<deploy, namespaces, jobs, collections, files>>
    ELSE IF NoValidResources(SafeLoadAll(yaml_content))
    THEN /\ inv' = [inv EXCEPT ![p] =
                Returned(r, <<>>, Text("[x] Error: No valid resources found in YAML", <<>>))]
         /\ UNCHANGED <<deploy, namespaces, jobs, collections, files>>
    ELSE /\ files' = IF io = "create_fails" THEN files ELSE files \cup {p}
         /\ inv' = [inv EXCEPT ![p] =
                IF io = "ok" THEN [r EXCEPT !.pc = "apply_run", !.tmp = TRUE]
                ELSE Returned([r EXCEPT !.tmp = (io = "write_fails")], <<>>,
                              Text("[x] Unexpected error: {str(e)}", <<"OSError">>))]
         /\ UNCHANGED <<deploy, namespaces, jobs, collections>>

\* An apply that reports a timeout and a missing kubectl as any other
\* exception.
apply_run_folded(p) ==
    /\ inv[p].pc = "apply_run"
    /\ \E rc \in KubectlOutcomes :
         inv' = [inv EXCEPT ![p] = Returned(inv[p], <<Call("kubectl apply -f", <<p>>, rc)>>,
                  CASE rc = 0 -> Text("[v] Successfully applied YAML:{result.stdout}", <<"stdout">>)
                    [] rc = 1 -> Text("[x] Error applying YAML:{result.stderr}", <<"stderr">>)
                    [] OTHER -> Text("[x] Unexpected error: {str(e)}", <<"Exception">>))]
    /\ files' = files \ {p}
    /\ UNCHANGED <<deploy, namespaces, jobs, collections>>

\* The rest of YamlOpsTools.apply: run kubectl apply -f on the file, remove
\* the file (finally), report.  What kubectl changes in the cluster is not
\* modelled.
apply_run(p) ==
    /\ inv[p].pc = "apply_run"
    /\ \E rc \in KubectlOutcomes :
         LET r == inv[p]
             calls == <<Call("kubectl apply -f", <<p>>, rc)>>
         IN  inv' = [inv EXCEPT ![p] = Returned(r, calls,
                  CASE rc = 0 -> Text("[v] Successfully applied YAML:{result.stdout}", <<"stdout">>)
                    [] rc = 124 -> Text("[x] Error: kubectl apply timed out after 60 seconds", <<>>)
                    [] rc = 127 -> Text("[x] Error: kubectl command not found. Make sure kubectl is installed and in PATH.", <<>>)
                    [] rc = 126 -> Text("[x] Unexpected error: {str(e)}", <<"PermissionError">>)
                    [] OTHER -> Text("[x] Error applying YAML:{result.stderr}", <<"stderr">>))]
    /\ files' = files \ {p}
    /\ UNCHANGED <<deploy, namespaces, jobs, collections>>

\* The kinds get maps to a read method (api_map), in the map's order.
SupportedKinds == <<"Pod", "Deployment", "Service", "ConfigMap", "Secret">>
IsSupported(kind) == \E i \in 1..Len(SupportedKinds) : SupportedKinds[i] = kind

ReadMethod(kind) ==
    CASE kind = "Pod" -> "read_namespaced_pod"
      [] kind = "Deployment" -> "read_namespaced_deployment"
      [] kind = "Service" -> "read_namespaced_service"
      [] kind = "ConfigMap" -> "read_namespaced_config_map"
      [] OTHER -> "read_namespaced_secret"

\* The objects the cluster holds besides the deployments, the pods and the
\* jobs, as <<kind, namespace, name>>.
OtherObjects == {<<"Service", "default", "web">>, <<"ConfigMap", "default", "cfg">>,
                 <<"Secret", "default", "cfg">>}

Exists(kind, namespace, name) ==
    \/ kind = "Deployment" /\ <<namespace, name>> \in DeployKeys
    \/ kind = "Pod" /\ \E i \in 1..Len(pods) :
                          pods[i].namespace = namespace /\ pods[i].name = name
    \/ <<kind, namespace, name>> \in OtherObjects

\* What get does with a namespace when it reads whatever it was given.
NamespaceGivenAlways(namespace) == TRUE

\* if namespace: (None and the empty string are no namespace)
NamespaceGiven(namespace) == Truthy(namespace)

\* YamlOpsTools.get
get_yaml(p, r, kind, name, namespace, fault) ==
    LET st == Status(IF Exists(kind, namespace, name) THEN 200 ELSE 404, fault)
        calls == <<Call(ReadMethod(kind), <<namespace, name>>, st)>>
    IN  /\ inv' = [inv EXCEPT ![p] =
             IF kind = WrongType
             THEN Returned(r, <<>>, Text("Unexpected error: {str(e)}", <<"TypeError">>))
             ELSE IF ~IsSupported(kind)
             THEN Returned(r, <<>>,
                    Text("Unsupported resource kind: {kind}. Supported: {', '.join(api_map.keys())}",
                         <<kind, SupportedKinds>>))
             ELSE IF ~NamespaceGiven(namespace)
             THEN Returned(r, <<>>, Text("Namespace required for {kind} resources", <<kind>>))
             ELSE IF st = 200
             THEN Returned(r, calls,
                    Text("YAML for {kind}/{name}:{yaml_output}", <<kind, name, <<kind, namespace, name>>>>))
             ELSE IF st = 404
             THEN Returned(r, calls,
                    Text("Resource {kind}/{name} not found in namespace '{namespace}'",
                         <<kind, name, namespace>>))
             ELSE Returned(r, calls,
                           ApiError("Error getting resource: {e.reason} - {e.body}", st))]
        /\ UNCHANGED <<deploy, namespaces, jobs, collections, files>>

(* ------------------------------ events --------------------------------- *)

\* A timestamp the API left unset (None); set timestamps are 1..MaxTs.
NoTs == 0

\* The events the cluster may hold: first_timestamp and event_time may be
\* unset, creation_timestamp is always set by the API server.  An event's
\* name is its position in API order.
EventShapes ==
    [first_timestamp : 0..MaxTs, event_time : {NoTs, MaxTs}, creation_timestamp : {1}]
EventLists ==
    UNION { { [i \in 1..k |-> [name |-> i,
                               first_timestamp |-> f[i].first_timestamp,
                               event_time |-> f[i].event_time,
                               creation_timestamp |-> f[i].creation_timestamp]]
              : f \in [1..k -> EventShapes] } : k \in 0..MaxEvents }

\* e.first_timestamp or e.event_time or e.metadata.creation_timestamp
EffectiveTs(e) ==
    IF e.first_timestamp # NoTs THEN e.first_timestamp
    ELSE IF e.event_time # NoTs THEN e.event_time
    ELSE e.creation_timestamp

\* key=lambda e: e.first_timestamp or e.event_time or e.metadata.creation_timestamp
SortKey(e) == EffectiveTs(e)

\* e put into the descending list s behind every element whose key is not
\* smaller (behind its equals).
RECURSIVE InsertDesc(_, _)
InsertDesc(s, e) ==
    IF s = <<>> THEN <<e>>
    ELSE IF SortKey(Head(s)) >= SortKey(e) THEN <<Head(s)>> \o InsertDesc(Tail(s), e)
    ELSE <<e>> \o s

\* e put into the descending list s before its equals.
RECURSIVE InsertDescFront(_, _)
InsertDescFront(s, e) ==
    IF s = <<>> THEN <<e>>
    ELSE IF SortKey(Head(s)) > SortKey(e) THEN <<Head(s)>> \o InsertDescFront(Tail(s), e)
    ELSE <<e>> \o s

\* A descending sort that reverses the API order of equal keys.
RECURSIVE SortedDescUnstable(_)
SortedDescUnstable(s) ==
    IF s = <<>> THEN <<>>
    ELSE InsertDescFront(SortedDescUnstable(SubSeq(s, 1, Len(s) - 1)), s[Len(s)])

\* sorted(items, key=..., reverse=True): descending by key, equal keys in
\* their original order (Python's sort is stable, also when reversed).
RECURSIVE SortedDesc(_)
SortedDesc(s) ==
    IF s = <<>> THEN <<>>
    ELSE InsertDesc(SortedDesc(SubSeq(s, 1, Len(s) - 1)), s[Len(s)])

\* The events of one namespace (every event of the model is in "default"),
\* of all namespaces when none is given.
EventsOf(namespace) ==
    IF ~Truthy(namespace) \/ namespace = "default" THEN events ELSE <<>>

\* What a list call with limit=k returns: a server that pages returns the
\* first k items in API order when k > 0; a server may also ignore the limit.
ListPage(items, limit, pages) ==
    IF pages /\ limit > 0 THEN SubSeq(items, 1, Min(limit, Len(items))) ELSE items

\* for event in sorted_events[:limit]
RenderedEvents(sorted_events, limit) == Slice(sorted_events, limit)

\* One rendered event record.
EventRecord(e) == [timestamp |-> EffectiveTs(e), name |-> e.name]

\* The records of the events, in their order.
RECURSIVE EventRecords(_)
EventRecords(s) ==
    IF s = <<>> THEN <<>> ELSE <<EventRecord(Head(s))>> \o EventRecords(Tail(s))

\* EventTools.list_events
list_events(p, r, namespace, limit, pages, fault) ==
    LET st == Status(200, fault)
        items == IF st = 200 THEN ListPage(EventsOf(namespace), limit, pages) ELSE <<>>
        api == IF Truthy(namespace) THEN "list_namespaced_event"
               ELSE "list_event_for_all_namespaces"
        calls == <<CallR(api, <<namespace, limit>>, st, items)>>
        scope == IF Truthy(namespace) THEN <<"namespace '", namespace, "'">>
                 ELSE <<"all namespaces">>
        sorted_events == SortedDesc(items)
        shown == RenderedEvents(sorted_events, limit)
    IN  /\ inv' = [inv EXCEPT ![p] =
             IF st # 200
             THEN Returned(r, calls,
                           ApiError("Error listing events: {e.reason} - {e.body}", st))
             ELSE IF items = <<>>
             THEN Returned(r, calls, Text("No events found in {scope}", <<scope>>))
             ELSE Returned(r, calls,
                    Text("Recent events in {scope} (showing {len(sorted_events)}):",
                         <<scope, Len(sorted_events),
                           EventRecords(shown)>>))]
        /\ UNCHANGED <<deploy, namespaces, jobs, collections, files>>

(* ------------------------------ single-call operations ------------------ *)

\* An operation that issues its call a second time when it failed.
OneCallRetried(r, call, okText, has404, nfText, errFmt) ==
    IF call.status = 200 THEN Returned(r, <<call>>, okText)
    ELSE IF call.status = 404 /\ has404 THEN Returned(r, <<call, call>>, nfText)
    ELSE Returned(r, <<call, call>>, ApiError(errFmt, call.status))

\* An operation that issues one call and renders its answer: the text of
\* success, the text of a 404 where the operation tells 404 apart (has404),
\* and the generic text carrying e.reason and e.body otherwise.
OneCall(r, call, okText, has404, nfText, errFmt) ==
    IF call.status = 200 THEN Returned(r, <<call>>, okText)
    ELSE IF call.status = 404 /\ has404 THEN Returned(r, <<call>>, nfText)
    ELSE Returned(r, <<call>>, ApiError(errFmt, call.status))

Frame == UNCHANGED <<deploy, namespaces, jobs, collections, files>>

InNamespace(items, namespace) ==
    SelectSeq(items, LAMBDA x : x.namespace = namespace)

\* PodTools.list_pods
list_pods(p, r, namespace, fault) ==
    LET st == Status(200, fault)
        items == IF Truthy(namespace) THEN InNamespace(pods, namespace) ELSE pods
        api == IF Truthy(namespace) THEN "list_namespaced_pod"
               ELSE "list_pod_for_all_namespaces"
    IN  /\ inv' = [inv EXCEPT ![p] =
             OneCall(r, CallR(api, <<namespace>>, st, items),
                     IF items = <<>>
                     THEN Text("No pods found in namespace '{namespace}'", <<namespace>>)
                     ELSE Text("Pods in namespace '{namespace}':", <<namespace, items>>),
                     FALSE, Text("", <<>>),
                     "Error listing pods: {e.reason} - {e.body}")]
        /\ Frame

PodExists(pod_name, namespace) ==
    \E i \in 1..Len(pods) : pods[i].name = pod_name /\ pods[i].namespace = namespace

PodNotFound(pod_name, namespace) ==
    Text("Pod '{pod_name}' not found in namespace '{namespace}'", <<pod_name, namespace>>)

\* PodTools.get_logs
get_logs(p, r, pod_name, namespace, tail, fault) ==
    LET st == Status(IF PodExists(pod_name, namespace) THEN 200 ELSE 404, fault)
    IN  /\ inv' = [inv EXCEPT ![p] =
             OneCall(r, Call("read_namespaced_pod_log", <<namespace, pod_name, tail>>, st),
                     Text("Logs from pod '{pod_name}' in namespace '{namespace}':{logs}",
                          <<pod_name, namespace, "logs">>),
                     TRUE, PodNotFound(pod_name, namespace),
                     "Error getting logs: {e.reason} - {e.body}")]
        /\ Frame

\* PodTools.describe
describe_pod(p, r, pod_name, namespace, fault) ==
    LET st == Status(IF PodExists(pod_name, namespace) THEN 200 ELSE 404, fault)
    IN  /\ inv' = [inv EXCEPT ![p] =
             OneCall(r, Call("read_namespaced_pod", <<namespace, pod_name>>, st),
                     Text("Pod: {pod.metadata.name}", <<pod_name, namespace>>),
                     TRUE, PodNotFound(pod_name, namespace),
                     "Error describing pod: {e.reason} - {e.body}")]
        /\ Frame

ServicesIn(namespace) ==
    IF <<"Service", namespace, "web">> \in OtherObjects THEN <<"web">> ELSE <<>>

\* ServiceTools.list_services
list_services(p, r, namespace, fault) ==
    LET st == Status(200, fault)
        items == ServicesIn(namespace)
    IN  /\ inv' = [inv EXCEPT ![p] =
             OneCall(r, CallR("list_namespaced_service", <<namespace>>, st, items),
                     IF items = <<>>
                     THEN Text("No services found in namespace '{namespace}'", <<namespace>>)
                     ELSE Text("Services in namespace '{namespace}':", <<namespace, items>>),
                     FALSE, Text("", <<>>),
                     "Error listing services: {e.reason} - {e.body}")]
        /\ Frame

\* ServiceTools.describe
describe_service(p, r, service_name, namespace, fault) ==
    LET st == Status(IF Exists("Service", namespace, service_name) THEN 200 ELSE 404, fault)
    IN  /\ inv' = [inv EXCEPT ![p] =
             OneCall(r, Call("read_namespaced_service", <<namespace, service_name>>, st),
                     Text("Service: {service.metadata.name}", <<service_name, namespace>>),
                     TRUE,
                     Text("Service '{service_name}' not found in namespace '{namespace}'",
                          <<service_name, namespace>>),
                     "Error describing service: {e.reason} - {e.body}")]
        /\ Frame

(* ------------------------------ nodes ----------------------------------- *)

ControlPlaneLabel == "node-role.kubernetes.io/control-plane"
MasterLabel == "node-role.kubernetes.io/master"

\* A node's labels are a set of <<key, value>>, one value a key (None and the
\* empty dict are both the empty set).
HasLabel(labels, k) == \E kv \in labels : kv[1] = k
\* labels.get(k)
LabelGet(labels, k) ==
    IF HasLabel(labels, k) THEN (CHOOSE kv \in labels : kv[1] = k)[2] ELSE NoneVal

\* The lexicographic order of the node names of the model.
NodeNames == {"node-a", "node-b", "node-c"}
NameRank(n) == CASE n = "node-a" -> 1 [] n = "node-b" -> 2 [] OTHER -> 3

\* labels.get(control-plane) or labels.get(master) or 'worker'
NodeRole(labels) ==
    IF Truthy(LabelGet(labels, ControlPlaneLabel)) THEN LabelGet(labels, ControlPlaneLabel)
    ELSE IF Truthy(LabelGet(labels, MasterLabel)) THEN LabelGet(labels, MasterLabel)
    ELSE "worker"

\* The block list_nodes renders for one node; the role line only when the
\* node has labels.
NodeBlock(node) ==
    [name |-> node.name, ready |-> node.ready,
     role |-> IF node.labels # {} THEN NodeRole(node.labels) ELSE NoneVal]

\* The blocks of the nodes, in their order.
RECURSIVE NodeBlocks(_)
NodeBlocks(s) ==
    IF s = <<>> THEN <<>> ELSE <<NodeBlock(Head(s))>> \o NodeBlocks(Tail(s))

\* NodeTools.list_nodes
list_nodes(p, r, fault) ==
    LET st == Status(200, fault)
    IN  /\ inv' = [inv EXCEPT ![p] =
             OneCall(r, CallR("list_node", <<>>, st, nodes),
                     IF nodes = <<>> THEN Text("No nodes found in cluster", <<>>)
                     ELSE Text("Cluster Nodes:",
                               <<NodeBlocks(nodes)>>),
                     FALSE, Text("", <<>>),
                     "Error listing nodes: {e.reason} - {e.body}")]
        /\ Frame

NodeExists(node_name) == \E i \in 1..Len(nodes) : nodes[i].name = node_name

\* NodeTools.describe_node
describe_node(p, r, node_name, fault) ==
    LET st == Status(IF NodeExists(node_name) THEN 200 ELSE 404, fault)
    IN  /\ inv' = [inv EXCEPT ![p] =
             OneCall(r, Call("read_node", <<node_name>>, st),
                     Text("Node: {node.metadata.name}", <<node_name>>),
                     TRUE, Text("Node '{node_name}' not found", <<node_name>>),
                     "Error describing node: {e.reason} - {e.body}")]
        /\ Frame

\* An order of the keys that depends on what the process has done before,
\* as the iteration order of an unsorted collection may.
RECURSIVE SortedNamesByHistory(_)
SortedNamesByHistory(S) ==
    IF S = {} THEN <<>>
    ELSE LET m == CHOOSE x \in S : \A y \in S :
                     IF \E q \in Procs : inv[q].pc = "done"
                     THEN NameRank(x) >= NameRank(y) ELSE NameRank(x) <= NameRank(y)
         IN  <<m>> \o SortedNamesByHistory(S \ {m})

\* sorted(pods_by_node.keys())
RECURSIVE SortedNames(_)
SortedNames(S) ==
    IF S = {} THEN <<>>
    ELSE LET m == CHOOSE x \in S : \A y \in S : NameRank(x) <= NameRank(y)
         IN  <<m>> \o SortedNames(S \ {m})

\* The keys of a grouping that leaves out the nodes without pods.
PodsByNodeKeysPodsOnly(node_items, pod_items) ==
    {pod_items[i].node_name : i \in {j \in 1..Len(pod_items) : Truthy(pod_items[j].node_name)}}

\* The keys of pods_by_node: the nodes some listed pod is assigned to, then
\* the nodes of the node list.
PodsByNodeKeys(node_items, pod_items) ==
    {pod_items[i].node_name : i \in {j \in 1..Len(pod_items) : Truthy(pod_items[j].node_name)}}
        \cup {node_items[i].name : i \in 1..Len(node_items)}

\* A section that lists every listed pod, whichever node it is assigned to.
NodeSectionAllPods(node_name, node_items, pod_items) ==
    [node |-> node_name,
     ready |-> NoneVal,
     pods |-> pod_items,
     pods_line |-> IF pod_items # <<>> THEN "  Pods ({len(node_pods)}):" ELSE "  Pods: None",
     count |-> Len(pod_items)]

\* The section list_pods_by_node renders for one key: the Ready status when
\* the node is in the node list, and the pods assigned to it in API order.
NodeSection(node_name, node_items, pod_items) ==
    [node |-> node_name,
     ready |-> IF \E i \in 1..Len(node_items) : node_items[i].name = node_name
               THEN (node_items[CHOOSE i \in 1..Len(node_items) :
                                  /\ node_items[i].name = node_name
                                  /\ \A j \in 1..(i - 1) : node_items[j].name # node_name]).ready
               ELSE NoneVal,
     pods |-> SelectSeq(pod_items, LAMBDA x : x.node_name = node_name),
     pods_line |-> IF SelectSeq(pod_items, LAMBDA x : x.node_name = node_name) # <<>>
                   THEN "  Pods ({len(node_pods)}):" ELSE "  Pods: None",
     count |-> Len(SelectSeq(pod_items, LAMBDA x : x.node_name = node_name))]

\* The sections of the nodes, in their order.
RECURSIVE NodeSections(_, _, _)
NodeSections(s, node_items, pod_items) ==
    IF s = <<>> THEN <<>>
    ELSE <<NodeSection(Head(s), node_items, pod_items)>>
         \o NodeSections(Tail(s), node_items, pod_items)

\* NodeTools.list_pods_by_node
list_pods_by_node(p, r, namespace, fault1, fault2) ==
    LET st1 == Status(200, fault1)
        st2 == Status(200, fault2)
        call1 == CallR("list_node", <<>>, st1, nodes)
        call2 == CallR("list_pod_for_all_namespaces", <<>>, st2, pods)
        pod_items == IF Truthy(namespace) THEN InNamespace(pods, namespace) ELSE pods
        keys == PodsByNodeKeys(nodes, pod_items)
        sorted_nodes == SortedNames(keys)
        scope == IF Truthy(namespace) THEN <<"namespace '", namespace, "'">>
                 ELSE <<"all namespaces">>
        errFmt == "Error listing pods by node: {e.reason} - {e.body}"
    IN  /\ inv' = [inv EXCEPT ![p] =
             IF st1 # 200 THEN Returned(r, <<call1>>, ApiError(errFmt, st1))
             ELSE IF st2 # 200 THEN Returned(r, <<call1, call2>>, ApiError(errFmt, st2))
             ELSE IF keys = {}
             THEN Returned(r, <<call1, call2>>, Text("No nodes or pods found", <<>>))
             ELSE Returned(r, <<call1, call2>>,
                    Text("Pods by Node ({scope}):",
                         <<scope, NodeSections(sorted_nodes, nodes, pod_items)>>))]
        /\ Frame

\* The role test of list_nodes, which asks for a label value that is set.
IsControlPlaneByValue(labels) ==
    Truthy(LabelGet(labels, ControlPlaneLabel)) \/ Truthy(LabelGet(labels, MasterLabel))

\* 'node-role.kubernetes.io/control-plane' in labels or '.../master' in labels
IsControlPlane(labels) == HasLabel(labels, ControlPlaneLabel) \/ HasLabel(labels, MasterLabel)

\* NodeTools.cluster_info
cluster_info(p, r, fault1, fault2) ==
    LET st1 == Status(200, fault1)
        st2 == Status(200, fault2)
        call1 == CallR("list_node", <<>>, st1, nodes)
        call2 == CallR("list_namespace", <<>>, st2, <<>>)
        control_plane == Cardinality({i \in 1..Len(nodes) : IsControlPlane(nodes[i].labels)})
        workers == Cardinality({i \in 1..Len(nodes) : ~IsControlPlane(nodes[i].labels)})
        errFmt == "Error getting cluster info: {e.reason} - {e.body}"
    IN  /\ inv' = [inv EXCEPT ![p] =
             IF st1 # 200 THEN Returned(r, <<call1>>, ApiError(errFmt, st1))
             ELSE IF st2 # 200 THEN Returned(r, <<call1, call2>>, ApiError(errFmt, st2))
             ELSE Returned(r, <<call1, call2>>,
                    Text("Cluster Information:",
                         <<Len(nodes), control_plane, workers, Cardinality(namespaces)>>))]
        /\ Frame

(* ------------------- operations of the modules not in src/ -------------- *)

\* tools/configmaps_secrets.py and tools/jobs.py: one call each, rendered as
\* the operations above render theirs.  An operation may also let a fault
\* escape (escapes), which the dispatcher has to catch; the exception is then
\* reported under whatever the dispatcher's variable name holds (nameVar).
OneCallOrEscape(r, call, okText, has404, nfText, errFmt, escapes, nameVar) ==
    IF escapes THEN call_tool_except([r EXCEPT !.calls = <<call>>], nameVar, <<"fault">>)
    ELSE OneCall(r, call, okText, has404, nfText, errFmt)

ConfigObjectsIn(kind, namespace) ==
    IF <<kind, namespace, "cfg">> \in OtherObjects THEN <<"cfg">> ELSE <<>>

list_configmaps(p, r, namespace, fault, escapes) ==
    LET st == Status(200, fault)
        items == ConfigObjectsIn("ConfigMap", namespace)
    IN  /\ inv' = [inv EXCEPT ![p] =
             OneCallOrEscape(r, CallR("list_namespaced_config_map", <<namespace>>, st, items),
                     IF items = <<>>
                     THEN Text("No configmaps found in namespace '{namespace}'", <<namespace>>)
                     ELSE Text("ConfigMaps in namespace '{namespace}':", <<namespace, items>>),
                     FALSE, Text("", <<>>),
                     "Error listing configmaps: {e.reason} - {e.body}", escapes, r.name)]
        /\ Frame

get_configmap(p, r, name, namespace, fault, escapes) ==
    LET st == Status(IF Exists("ConfigMap", namespace, name) THEN 200 ELSE 404, fault)
    IN  /\ inv' = [inv EXCEPT ![p] =
             OneCallOrEscape(r, Call("read_namespaced_config_map", <<namespace, name>>, st),
                     Text("ConfigMap: {name}", <<name, namespace>>),
                     TRUE,
                     Text("ConfigMap '{name}' not found in namespace '{namespace}'",
                          <<name, namespace>>),
                     "Error getting configmap: {e.reason} - {e.body}", escapes, name)]
        /\ Frame

list_secrets(p, r, namespace, fault, escapes) ==
    LET st == Status(200, fault)
        items == ConfigObjectsIn("Secret", namespace)
    IN  /\ inv' = [inv EXCEPT ![p] =
             OneCallOrEscape(r, CallR("list_namespaced_secret", <<namespace>>, st, items),
                     IF items = <<>>
                     THEN Text("No secrets found in namespace '{namespace}'", <<namespace>>)
                     ELSE Text("Secrets in namespace '{namespace}':", <<namespace, items>>),
                     FALSE, Text("", <<>>),
                     "Error listing secrets: {e.reason} - {e.body}", escapes, r.name)]
        /\ Frame

get_secret(p, r, name, namespace, decode, fault, escapes) ==
    LET st == Status(IF Exists("Secret", namespace, name) THEN 200 ELSE 404, fault)
    IN  /\ inv' = [inv EXCEPT ![p] =
             OneCallOrEscape(r, Call("read_namespaced_secret", <<namespace, name>>, st),
                     Text("Secret: {name}", <<name, namespace, decode>>),
                     TRUE,
                     Text("Secret '{name}' not found in namespace '{namespace}'",
                          <<name, namespace>>),
                     "Error getting secret: {e.reason} - {e.body}", escapes, name)]
        /\ Frame

\* The names jobs are asked for by; a job is <<namespace, name>>.
JobsIn(namespace) == {j \in jobs : j[1] = namespace}

list_jobs(p, r, namespace, fault, escapes) ==
    LET st == Status(200, fault)
    IN  /\ inv' = [inv EXCEPT ![p] =
             OneCallOrEscape(r, Call("list_namespaced_job", <<namespace>>, st),
                     IF JobsIn(namespace) = {}
                     THEN Text("No jobs found in namespace '{namespace}'", <<namespace>>)
                     ELSE Text("Jobs in namespace '{namespace}':", <<namespace, JobsIn(namespace)>>),
                     FALSE, Text("", <<>>),
                     "Error listing jobs: {e.reason} - {e.body}", escapes, r.name)]
        /\ Frame

JobNotFound(job_name, namespace) ==
    Text("Job '{job_name}' not found in namespace '{namespace}'", <<job_name, namespace>>)

describe_job(p, r, job_name, namespace, fault, escapes) ==
    LET st == Status(IF <<namespace, job_name>> \in jobs THEN 200 ELSE 404, fault)
    IN  /\ inv' = [inv EXCEPT ![p] =
             OneCallOrEscape(r, Call("read_namespaced_job", <<namespace, job_name>>, st),
                     Text("Job: {job_name}", <<job_name, namespace>>),
                     TRUE, JobNotFound(job_name, namespace),
                     "Error describing job: {e.reason} - {e.body}", escapes, r.name)]
        /\ Frame

list_cronjobs(p, r, namespace, fault, escapes) ==
    LET st == Status(200, fault)
    IN  /\ inv' = [inv EXCEPT ![p] =
             OneCallOrEscape(r, Call("list_namespaced_cron_job", <<namespace>>, st),
                     Text("No cronjobs found in namespace '{namespace}'", <<namespace>>),
                     FALSE, Text("", <<>>),
                     "Error listing cronjobs: {e.reason} - {e.body}", escapes, r.name)]
        /\ Frame

delete_job(p, r, job_name, namespace, fault, escapes) ==
    LET st == Status(IF <<namespace, job_name>> \in jobs THEN 200 ELSE 404, fault)
    IN  /\ jobs' = IF st = 200 THEN jobs \ {<<namespace, job_name>>} ELSE jobs
        /\ inv' = [inv EXCEPT ![p] =
             OneCallOrEscape(r, Call("delete_namespaced_job", <<namespace, job_name>>, st),
                     Text("Successfully deleted job '{job_name}' in namespace '{namespace}'",
                          <<job_name, namespace>>),
                     TRUE, JobNotFound(job_name, namespace),
                     "Error deleting job: {e.reason} - {e.body}", escapes, r.name)]
        /\ UNCHANGED <<deploy, namespaces, collections, files>>

(* ------------------------------ call_tool ------------------------------- *)

\* The names call_tool's if/elif chain compares the tool name with.
DispatchedNames ==
    {"list_pods", "get_pod_logs", "describe_pod", "list_deployments",
     "scale_deployment", "restart_deployment", "apply_yaml", "get_yaml",
     "list_events", "list_services", "describe_service", "list_configmaps",
     "get_configmap", "list_secrets", "get_secret", "list_namespaces",
     "create_namespace", "delete_namespace", "list_nodes", "describe_node",
     "cluster_info", "list_pods_by_node", "list_jobs", "describe_job",
     "list_cronjobs", "delete_job"}

\* Every branch below is one arm of the chain for caller p: B is the set of
\* argument bags the arm is entered with, F the faults of the API.  The arm
\* reads its required keys first (KeyError when one is absent) and its
\* optional keys with their defaults, then awaits the operation.

\* An arm that reads namespace without a default: None reaches the operation.
call_list_pods_cluster_wide(p, B, F) ==
    /\ CanCall(p)
    /\ \E args \in B, fault \in F :
         list_pods(p, Fresh("list_pods", args), GetOrNone(args, "namespace"), fault)

call_list_pods(p, B, F) ==
    /\ CanCall(p)
    /\ \E args \in B, fault \in F :
         list_pods(p, Fresh("list_pods", args), Get(args, "namespace", "default"), fault)

call_get_pod_logs(p, B, F) ==
    /\ CanCall(p)
    /\ \E args \in B :
         \/ RaisesKeyError(p, "get_pod_logs", args, <<"pod_name">>)
         \/ /\ MissingKey(args, <<"pod_name">>) = NoneVal
            /\ \E fault \in F :
                 get_logs(p, Fresh("get_pod_logs", args), args.val.pod_name,
                          Get(args, "namespace", "default"), Get(args, "tail", 100), fault)

call_describe_pod(p, B, F) ==
    /\ CanCall(p)
    /\ \E args \in B :
         \/ RaisesKeyError(p, "describe_pod", args, <<"pod_name">>)
         \/ /\ MissingKey(args, <<"pod_name">>) = NoneVal
            /\ \E fault \in F :
                 describe_pod(p, Fresh("describe_pod", args), args.val.pod_name,
                              Get(args, "namespace", "default"), fault)

call_list_deployments(p, B, F) ==
    /\ CanCall(p)
    /\ \E args \in B, fault \in F :
         list_deployments(p, Fresh("list_deployments", args),
                          Get(args, "namespace", "default"), fault)

call_scale_deployment(p, B, F) ==
    /\ CanCall(p)
    /\ \E args \in B :
         \/ RaisesKeyError(p, "scale_deployment", args, <<"deployment_name", "replicas">>)
         \/ /\ MissingKey(args, <<"deployment_name", "replicas">>) = NoneVal
            /\ \E fault \in F :
                 scale_read(p, Fresh("scale_deployment", args), args.val.deployment_name,
                            args.val.replicas, Get(args, "namespace", "default"), fault)

call_restart_deployment(p, B, F) ==
    /\ CanCall(p)
    /\ \E args \in B :
         \/ RaisesKeyError(p, "restart_deployment", args, <<"deployment_name">>)
         \/ /\ MissingKey(args, <<"deployment_name">>) = NoneVal
            /\ \E fault \in F :
                 restart_read(p, Fresh("restart_deployment", args), args.val.deployment_name,
                              Get(args, "namespace", "default"), fault)

call_apply_yaml(p, B, IO) ==
    /\ CanCall(p)
    /\ \E args \in B :
         \/ RaisesKeyError(p, "apply_yaml", args, <<"yaml_content">>)
         \/ /\ MissingKey(args, <<"yaml_content">>) = NoneVal
            /\ \E io \in IO :
                 apply_validate(p, Fresh("apply_yaml", args), args.val.yaml_content, io)

call_get_yaml(p, B, F) ==
    /\ CanCall(p)
    /\ \E args \in B :
         \/ RaisesKeyError(p, "get_yaml", args, <<"kind", "name">>)
         \/ /\ MissingKey(args, <<"kind", "name">>) = NoneVal
            /\ \E fault \in F :
                 get_yaml(p, Fresh("get_yaml", args), args.val.kind, args.val.name,
                          GetOrNone(args, "namespace"), fault)

call_list_events(p, B, F) ==
    /\ CanCall(p)
    /\ \E args \in B, fault \in F, pages \in BOOLEAN :
         list_events(p, Fresh("list_events", args), GetOrNone(args, "namespace"),
                     Get(args, "limit", 50), pages, fault)

call_list_services(p, B, F) ==
    /\ CanCall(p)
    /\ \E args \in B, fault \in F :
         list_services(p, Fresh("list_services", args),
                       Get(args, "namespace", "default"), fault)

call_describe_service(p, B, F) ==
    /\ CanCall(p)
    /\ \E args \in B :
         \/ RaisesKeyError(p, "describe_service", args, <<"service_name">>)
         \/ /\ MissingKey(args, <<"service_name">>) = NoneVal
            /\ \E fault \in F :
                 describe_service(p, Fresh("describe_service", args), args.val.service_name,
                                  Get(args, "namespace", "default"), fault)

call_list_configmaps(p, B, F) ==
    /\ CanCall(p)
    /\ \E args \in B, fault \in F, escapes \in BOOLEAN :
         list_configmaps(p, Fresh("list_configmaps", args),
                         Get(args, "namespace", "default"), fault, escapes)

call_get_configmap(p, B, F) ==
    /\ CanCall(p)
    /\ \E args \in B :
         \/ RaisesKeyError(p, "get_configmap", args, <<"name">>)
         \/ /\ MissingKey(args, <<"name">>) = NoneVal
            /\ \E fault \in F, escapes \in BOOLEAN :
                 get_configmap(p, Fresh("get_configmap", args), args.val.name,
                               Get(args, "namespace", "default"), fault, escapes)

call_list_secrets(p, B, F) ==
    /\ CanCall(p)
    /\ \E args \in B, fault \in F, escapes \in BOOLEAN :
         list_secrets(p, Fresh("list_secrets", args),
                      Get(args, "namespace", "default"), fault, escapes)

call_get_secret(p, B, F) ==
    /\ CanCall(p)
    /\ \E args \in B :
         \/ RaisesKeyError(p, "get_secret", args, <<"name">>)
         \/ /\ MissingKey(args, <<"name">>) = NoneVal
            /\ \E fault \in F, escapes \in BOOLEAN :
                 get_secret(p, Fresh("get_secret", args), args.val.name,
                            Get(args, "namespace", "default"), Get(args, "decode", TRUE),
                            fault, escapes)

call_list_namespaces(p, B, F) ==
    /\ CanCall(p)
    /\ \E args \in B, fault \in F :
         list_namespaces(p, Fresh("list_namespaces", args), fault)

call_create_namespace(p, B, F) ==
    /\ CanCall(p)
    /\ \E args \in B :
         \/ RaisesKeyError(p, "create_namespace", args, <<"name">>)
         \/ /\ MissingKey(args, <<"name">>) = NoneVal
            /\ \E fault \in F :
                 create_namespace(p, Fresh("create_namespace", args), args.val.name,
                                  GetOrNone(args, "labels"), fault)

call_delete_namespace(p, B, F) ==
    /\ CanCall(p)
    /\ \E args \in B :
         \/ RaisesKeyError(p, "delete_namespace", args, <<"name">>)
         \/ /\ MissingKey(args, <<"name">>) = NoneVal
            /\ \E fault \in F :
                 delete_namespace(p, Fresh("delete_namespace", args), args.val.name, fault)

call_list_nodes(p, B, F) ==
    /\ CanCall(p)
    /\ \E args \in B, fault \in F :
         list_nodes(p, Fresh("list_nodes", args), fault)

call_describe_node(p, B, F) ==
    /\ CanCall(p)
    /\ \E args \in B :
         \/ RaisesKeyError(p, "describe_node", args, <<"node_name">>)
         \/ /\ MissingKey(args, <<"node_name">>) = NoneVal
            /\ \E fault \in F :
                 describe_node(p, Fresh("describe_node", args), args.val.node_name, fault)

call_cluster_info(p, B, F) ==
    /\ CanCall(p)
    /\ \E args \in B, fault1 \in F, fault2 \in F :
         cluster_info(p, Fresh("cluster_info", args), fault1, fault2)

call_list_pods_by_node(p, B, F) ==
    /\ CanCall(p)
    /\ \E args \in B, fault1 \in F, fault2 \in F :
         list_pods_by_node(p, Fresh("list_pods_by_node", args),
                           GetOrNone(args, "namespace"), fault1, fault2)

call_list_jobs(p, B, F) ==
    /\ CanCall(p)
    /\ \E args \in B, fault \in F, escapes \in BOOLEAN :
         list_jobs(p, Fresh("list_jobs", args), Get(args, "namespace", "default"),
                   fault, escapes)

call_describe_job(p, B, F) ==
    /\ CanCall(p)
    /\ \E args \in B :
         \/ RaisesKeyError(p, "describe_job", args, <<"job_name">>)
         \/ /\ MissingKey(args, <<"job_name">>) = NoneVal
            /\ \E fault \in F, escapes \in BOOLEAN :
                 describe_job(p, Fresh("describe_job", args), args.val.job_name,
                              Get(args, "namespace", "default"), fault, escapes)

call_list_cronjobs(p, B, F) ==
    /\ CanCall(p)
    /\ \E args \in B, fault \in F, escapes \in BOOLEAN :
         list_cronjobs(p, Fresh("list_cronjobs", args), Get(args, "namespace", "default"),
                       fault, escapes)

call_delete_job(p, B, F) ==
    /\ CanCall(p)
    /\ \E args \in B :
         \/ RaisesKeyError(p, "delete_job", args, <<"job_name">>)
         \/ /\ MissingKey(args, <<"job_name">>) = NoneVal
            /\ \E fault \in F, escapes \in BOOLEAN :
                 delete_job(p, Fresh("delete_job", args), args.val.job_name,
                            Get(args, "namespace", "default"), fault, escapes)

\* What the last arm answers when it calls list_pods for a name it does not know.
UnknownToolCalls(name) == <<Call("list_namespaced_pod", <<"default">>, 200)>>

\* The calls the last arm makes: none.
UnknownTool(name) == <<>>

\* else: return [TextContent(type="text", text=f"Unknown tool: {name}")]
call_unknown(p, N, B) ==
    /\ CanCall(p)
    /\ \E name \in N, args \in B :
         /\ name \notin DispatchedNames
         /\ inv' = [inv EXCEPT ![p] =
                Returned(Fresh(name, args), UnknownTool(name),
                         Text("Unknown tool: {name}", <<name>>))]
    /\ Frame

(* ------------------------------ argument bags --------------------------- *)

\* Names no arm of the chain compares with.
UnknownNames == {"bogus", "", "list_pod", "LIST_PODS"}

NoKeys == {NoArgs}
NamespaceBags(V) == Bags({"namespace"}, [namespace : V], [namespace |-> "default"])

PodBags(P, V) ==
    Bags({"pod_name", "namespace", "tail"},
         [pod_name : P, namespace : V, tail : {10}],
         [pod_name |-> "p1", namespace |-> "default", tail |-> 10])

ScaleBags(D, R, V) ==
    Bags({"deployment_name", "replicas", "namespace"},
         [deployment_name : D, replicas : R, namespace : V],
         [deployment_name |-> "web", replicas |-> 0, namespace |-> "default"])

RestartBags(D, V) ==
    Bags({"deployment_name", "namespace"},
         [deployment_name : D, namespace : V],
         [deployment_name |-> "web", namespace |-> "default"])

ApplyBags(C) == Bags({"yaml_content"}, [yaml_content : C], [yaml_content |-> <<>>])

GetYamlBags(K, V) ==
    Bags({"kind", "name", "namespace"},
         [kind : K, name : {"web"}, namespace : V],
         [kind |-> "Pod", name |-> "web", namespace |-> "default"])

EventBags(V, L) ==
    Bags({"namespace", "limit"}, [namespace : V, limit : L],
         [namespace |-> "default", limit |-> 0])

ServiceBags(V) ==
    Bags({"service_name", "namespace"}, [service_name : {"web", "ghost"}, namespace : V],
         [service_name |-> "web", namespace |-> "default"])

NameBags(N, V) ==
    Bags({"name", "namespace"}, [name : N, namespace : V],
         [name |-> "cfg", namespace |-> "default"])

SecretBags(N, V) ==
    Bags({"name", "namespace", "decode"}, [name : N, namespace : V, decode : {FALSE}],
         [name |-> "cfg", namespace |-> "default", decode |-> FALSE])

CreateNamespaceBags(N) ==
    Bags({"name", "labels"}, [name : N, labels : {"team=a"}],
         [name |-> "team-a", labels |-> "team=a"])

DeleteNamespaceBags(N) == Bags({"name"}, [name : N], [name |-> "team-a"])

NodeBags(N) == Bags({"node_name"}, [node_name : N], [node_name |-> "node-a"])

JobBags(J, V) ==
    Bags({"job_name", "namespace"}, [job_name : J, namespace : V],
         [job_name |-> "job1", namespace |-> "default"])

(* ------------------------------ specifications -------------------------- *)

\* The argument bags and the fault sets the specifications below call the
\* arms with.
ArgsScaleAny == ScaleBags({"web", "ghost"}, 0..MaxReplicas, {"default", "dev", "prod"})
ArgsScaleShared == ScaleBags({"web", "ghost"}, {0, 1}, {"default"})
ArgsScaleOrGhost == ScaleBags({"web", "ghost"}, {1}, {"default"})
ArgsScaleLoop == ScaleBags({"web"}, {0, 1}, {"default"})
ArgsScale == ScaleBags({"web"}, {1}, {"default"})
ArgsRestartAny == RestartBags({"web", "ghost"}, {"default", "dev"})
ArgsRestartOrGhost == RestartBags({"web", "ghost"}, {"default"})
ArgsRestart == RestartBags({"web"}, {"default"})
ArgsApply == ApplyBags({<<>>, <<"a: 1">>})
ArgsApplyAny == ApplyBags(YamlContents)
ArgsApplyOne == ApplyBags({<<"a: 1">>})
ArgsGetYaml == GetYamlBags({"Deployment", WrongType}, {"default"})
ArgsGetYamlAny ==
    GetYamlBags({"Pod", "Deployment", "Service", "ConfigMap", "Secret", "Node", WrongType},
                {"default", "dev", "", NoneVal})
ArgsGetYamlCalls == GetYamlBags({"Deployment", "Secret"}, {"default", "prod"})
ArgsGetYamlOne == GetYamlBags({"Deployment"}, {"default"})
ArgsEventsAny == EventBags({"default", "dev"}, (-1)..MaxLimit)
ArgsEventsLists == EventBags({"default", "prod"}, {1})
ArgsEvents == EventBags({"default"}, {1})
ArgsService == ServiceBags({"default"})
ArgsName == NameBags({"cfg"}, {"default"})
ArgsSecret == SecretBags({"cfg"}, {"default"})
ArgsCreateAny == CreateNamespaceBags(NsNames \cup {"default"})
ArgsCreateCalls == CreateNamespaceBags({"team-a", "dev"})
ArgsCreate == CreateNamespaceBags({"team-a"})
ArgsDeleteAny == DeleteNamespaceBags(NsNames)
ArgsDeleteCalls == DeleteNamespaceBags({"team-a", "dev"})
ArgsDelete == DeleteNamespaceBags({"team-a"})
ArgsNodeOrGhost == NodeBags({"node-a", "node-c"})
ArgsNode == NodeBags({"node-a"})
ArgsJob == JobBags({"job1"}, {"default"})
ArgsPodOrGhost == PodBags({"p1", "ghost"}, {"default"})
ArgsPod == PodBags({"p1"}, {"default"})
ArgsNamespaceAny == NamespaceBags({"default", "dev", "prod"})
ArgsNamespaceOrNone == NamespaceBags({"default", "prod", ""})
ArgsNamespaceLists == NamespaceBags({"default", "prod"})
ArgsNamespaceFilter == NamespaceBags({"dev", ""})
ArgsNamespace == NamespaceBags({"default"})
CalledNames == UnknownNames \cup {"list_pods"}
NoFault == {0}
FileWritten == {"ok"}

\* Every deployment of DeployKeys starts with 2 replicas and no restart
\* annotation.
InitDeploy ==
    (<<"default", "web">> :> [replicas |-> 2, restartedAt |-> 0])
        @@ (<<"dev", "web">> :> [replicas |-> 2, restartedAt |-> 0])

InitCluster ==
    /\ deploy = InitDeploy
    /\ namespaces = BaseNamespaces
    /\ jobs = {<<"default", "job1">>}
    /\ pods = << [name |-> "p1", namespace |-> "default", node_name |-> "node-b", phase |-> "Running"],
                 [name |-> "p2", namespace |-> "dev", node_name |-> NoneVal, phase |-> "Pending"] >>
    /\ nodes = << [name |-> "node-b", labels |-> {<<ControlPlaneLabel, "">>}, ready |-> "True"],
                  [name |-> "node-a", labels |-> {}, ready |-> "True"] >>
    /\ files = {}
    /\ inv = <<IdleInv, IdleInv>>

Init ==
    /\ InitCluster
    /\ events = << [name |-> 1, first_timestamp |-> 1, event_time |-> NoTs, creation_timestamp |-> 1],
                   [name |-> 2, first_timestamp |-> NoTs, event_time |-> MaxTs, creation_timestamp |-> 1] >>

\* The faults the API answers with under Spec.
DispatchFaults == {0, 500}

\* The dispatcher with every arm, one caller, every key of every schema
\* present or absent.
Next ==
    \E p \in {1} :
        \/ call_list_pods(p, ArgsNamespace, DispatchFaults)
        \/ call_get_pod_logs(p, ArgsPod, DispatchFaults)
        \/ call_describe_pod(p, ArgsPod, DispatchFaults)
        \/ call_list_deployments(p, ArgsNamespace, DispatchFaults)
        \/ call_scale_deployment(p, ArgsScale, DispatchFaults)
        \/ scale_patch(p)
        \/ call_restart_deployment(p, ArgsRestart, DispatchFaults)
        \/ restart_patch(p)
        \/ call_apply_yaml(p, ArgsApply, FileOutcomes)
        \/ apply_run(p)
        \/ call_get_yaml(p, ArgsGetYaml, DispatchFaults)
        \/ call_list_events(p, ArgsEvents, DispatchFaults)
        \/ call_list_services(p, ArgsNamespace, DispatchFaults)
        \/ call_describe_service(p, ArgsService, DispatchFaults)
        \/ call_list_configmaps(p, ArgsNamespace, DispatchFaults)
        \/ call_get_configmap(p, ArgsName, DispatchFaults)
        \/ call_list_secrets(p, ArgsNamespace, DispatchFaults)
        \/ call_get_secret(p, ArgsSecret, DispatchFaults)
        \/ call_list_namespaces(p, NoKeys, DispatchFaults)
        \/ call_create_namespace(p, ArgsCreate, DispatchFaults)
        \/ call_delete_namespace(p, ArgsDelete, DispatchFaults)
        \/ call_list_nodes(p, NoKeys, DispatchFaults)
        \/ call_describe_node(p, ArgsNode, DispatchFaults)
        \/ call_cluster_info(p, NoKeys, DispatchFaults)
        \/ call_list_pods_by_node(p, ArgsNamespace, DispatchFaults)
        \/ call_list_jobs(p, ArgsNamespace, DispatchFaults)
        \/ call_describe_job(p, ArgsJob, DispatchFaults)
        \/ call_list_cronjobs(p, ArgsNamespace, DispatchFaults)
        \/ call_delete_job(p, ArgsJob, DispatchFaults)
        \/ call_unknown(p, CalledNames, ArgsNamespace)

Spec == Init /\ [][Next]_vars


\* The deployment operations alone, with every deployment, replica count and
\* namespace.
NextDeploy ==
    \E p \in {1} :
        \/ call_scale_deployment(p, ArgsScaleAny, Faults)
        \/ scale_patch(p)
        \/ call_restart_deployment(p, ArgsRestartAny, Faults)
        \/ restart_patch(p)
        \/ call_list_deployments(p, ArgsNamespaceAny, Faults)

SpecDeploy == Init /\ [][NextDeploy]_vars

\* The namespace operations alone.
NextNamespaces ==
    \E p \in {1} :
        \/ call_create_namespace(p, ArgsCreateAny, Faults)
        \/ call_delete_namespace(p, ArgsDeleteAny, Faults)
        \/ call_list_namespaces(p, NoKeys, Faults)

SpecNamespaces == Init /\ [][NextNamespaces]_vars

\* The YAML operations alone, with every text of YamlContents and every kind.
NextYaml ==
    \E p \in {1} :
        \/ call_apply_yaml(p, ArgsApplyAny, FileOutcomes)
        \/ apply_run(p)
        \/ call_get_yaml(p, ArgsGetYamlAny, Faults)

SpecYaml == Init /\ [][NextYaml]_vars

\* list_events alone, called once on every list of events of EventLists.
InitEvents ==
    /\ InitCluster
    /\ events \in EventLists

NextEvents ==
    \E p \in {1} :
        /\ inv[p].pc = "idle"
        /\ call_list_events(p, ArgsEventsAny, Faults)

SpecEvents == InitEvents /\ [][NextEvents]_vars

\* The lists over S of at most n elements.
RECURSIVE Lists(_, _)
Lists(S, n) ==
    IF n = 0 THEN {<<>>}
    ELSE Lists(S, n - 1) \cup
         {Append(l, x) : l \in {m \in Lists(S, n - 1) : Len(m) = n - 1}, x \in S}

\* The nodes the API may list: any order of distinct names; no labels, a
\* role label with an empty or a set value, or a label that is no role.
NodeLabels ==
    {{}, {<<ControlPlaneLabel, "">>}, {<<MasterLabel, "true">>}, {<<"zone", "a">>}}
NodeShapes == [name : NodeNames, labels : NodeLabels, ready : {"True"}]
NodeLists ==
    {l \in Lists(NodeShapes, MaxNodes) :
        \A i, j \in 1..Len(l) : i # j => l[i].name # l[j].name}

\* The pods the API may list: a pod is named by its position, is assigned to
\* a node (also one the node list lacks) or to none, in one of two namespaces.
Pod(i, node_name, namespace) ==
    [name |-> i, namespace |-> namespace, node_name |-> node_name, phase |-> "Running"]
RECURSIVE PodLists(_)
PodLists(n) ==
    IF n = 0 THEN {<<>>}
    ELSE PodLists(n - 1) \cup
         {Append(l, Pod(n, x, ns)) : l \in {m \in PodLists(n - 1) : Len(m) = n - 1},
                                     x \in {NoneVal, "node-a", "node-c"},
                                     ns \in {"default", "dev"}}

\* The node operations alone, called once on every list of nodes and pods.
InitNodes ==
    /\ deploy = InitDeploy
    /\ namespaces = BaseNamespaces
    /\ jobs = {}
    /\ events = <<>>
    /\ files = {}
    /\ inv = <<IdleInv, IdleInv>>
    /\ nodes \in NodeLists
    /\ pods \in PodLists(MaxPods)

NextNodes ==
    \E p \in {1} :
        /\ inv[p].pc = "idle"
        /\ \/ call_list_nodes(p, NoKeys, DispatchFaults)
           \/ call_cluster_info(p, NoKeys, DispatchFaults)
           \/ call_list_pods_by_node(p, ArgsNamespaceFilter, DispatchFaults)

SpecNodes == InitNodes /\ [][NextNodes]_vars

\* The list operations alone, called once on clusters whose collections are
\* empty or not.
InitLists ==
    /\ deploy = InitDeploy
    /\ namespaces \in {{}, BaseNamespaces}
    /\ jobs = {}
    /\ events \in Lists({[name |-> 1, first_timestamp |-> 1, event_time |-> NoTs,
                          creation_timestamp |-> 1]}, 1)
    /\ files = {}
    /\ inv = <<IdleInv, IdleInv>>
    /\ nodes \in {l \in NodeLists : Len(l) <= 1 /\ \A i \in 1..Len(l) : l[i].labels = {}}
    /\ pods \in PodLists(1)

NextLists ==
    \E p \in {1} :
        /\ inv[p].pc = "idle"
        /\ \/ call_list_pods(p, ArgsNamespaceOrNone, DispatchFaults)
           \/ call_list_deployments(p, ArgsNamespaceLists, DispatchFaults)
           \/ call_list_services(p, ArgsNamespaceLists, DispatchFaults)
           \/ call_list_namespaces(p, NoKeys, DispatchFaults)
           \/ call_list_nodes(p, NoKeys, DispatchFaults)
           \/ call_list_events(p, ArgsEventsLists, DispatchFaults)
           \/ call_list_pods_by_node(p, ArgsNamespaceFilter, DispatchFaults)

SpecLists == InitLists /\ [][NextLists]_vars

\* Every operation of src/ that issues external calls, called once, the API
\* answering each call with success, 404 or 500 and kubectl with any outcome.
NextCalls ==
    \E p \in {1} :
        \/ /\ inv[p].pc = "idle"
           /\ \/ call_list_pods(p, ArgsNamespace, Faults)
              \/ call_get_pod_logs(p, ArgsPodOrGhost, Faults)
              \/ call_describe_pod(p, ArgsPodOrGhost, Faults)
              \/ call_list_deployments(p, ArgsNamespace, Faults)
              \/ call_scale_deployment(p, ArgsScaleOrGhost, Faults)
              \/ call_restart_deployment(p, ArgsRestartOrGhost, Faults)
              \/ call_apply_yaml(p, ArgsApplyOne, FileOutcomes)
              \/ call_get_yaml(p, ArgsGetYamlCalls, Faults)
              \/ call_list_events(p, ArgsEvents, Faults)
              \/ call_list_services(p, ArgsNamespace, Faults)
              \/ call_describe_service(p, ArgsService, Faults)
              \/ call_list_namespaces(p, NoKeys, Faults)
              \/ call_create_namespace(p, ArgsCreateCalls, Faults)
              \/ call_delete_namespace(p, ArgsDeleteCalls, Faults)
              \/ call_list_nodes(p, NoKeys, Faults)
              \/ call_describe_node(p, ArgsNodeOrGhost, Faults)
              \/ call_cluster_info(p, NoKeys, Faults)
              \/ call_list_pods_by_node(p, ArgsNamespace, Faults)
        \/ scale_patch(p)
        \/ restart_patch(p)
        \/ apply_run(p)

SpecCalls == Init /\ [][NextCalls]_vars

\* A scheduler that lets a caller step whatever the other callers are at.
EventLoopFreeAlways(p) == TRUE

\* call_tool awaits the coroutine of a tool, and no tool awaits anything:
\* its API calls and its kubectl run are blocking calls.  Once the event loop
\* has started an invocation it runs nothing else until call_tool returns:
\* a caller steps only while no other invocation is under way.
EventLoopFree(p) == \A q \in Procs \ {p} : inv[q].pc \in {"idle", "done"}

\* What the event loop does for caller p: start the invocation p submitted,
\* or carry on with the one under way.
Serve(p) ==
    /\ EventLoopFree(p)
    /\ \/ /\ inv[p].pc = "idle"
          /\ \/ call_scale_deployment(p, ArgsScaleLoop, NoFault)
             \/ call_restart_deployment(p, ArgsRestart, NoFault)
             \/ call_apply_yaml(p, ArgsApplyOne, FileWritten)
             \/ call_get_pod_logs(p, ArgsPod, NoFault)
             \/ call_list_deployments(p, ArgsNamespace, NoFault)
       \/ scale_patch(p)
       \/ restart_patch(p)
       \/ apply_run(p)

\* Two callers, one invocation each, served by one event loop.
NextLoop == \E p \in Procs : Serve(p)

SpecLoop == Init /\ [][NextLoop]_vars

\* Two server processes against one cluster (main runs one stdio server per
\* process, each with its own event loop): each caller has one invocation
\* served by its own server, so the API calls of the two interleave freely.
NextShared ==
    \E p \in Procs :
        \/ /\ inv[p].pc = "idle"
           /\ \/ call_scale_deployment(p, ArgsScaleShared, Faults)
              \/ call_restart_deployment(p, ArgsRestartOrGhost, Faults)
        \/ scale_patch(p)
        \/ restart_patch(p)

SpecShared == Init /\ [][NextShared]_vars

\* The read operations of src/ alone, on a cluster nothing changes: two
\* callers, one invocation each.
NextReads ==
    \E p \in Procs :
        /\ inv[p].pc = "idle"
        /\ \/ call_list_pods(p, ArgsNamespace, DispatchFaults)
           \/ call_describe_pod(p, ArgsPod, DispatchFaults)
           \/ call_list_deployments(p, ArgsNamespace, DispatchFaults)
           \/ call_get_yaml(p, ArgsGetYamlOne, DispatchFaults)
           \/ call_list_events(p, ArgsEvents, DispatchFaults)
           \/ call_list_services(p, ArgsNamespace, DispatchFaults)
           \/ call_describe_service(p, ArgsService, DispatchFaults)
           \/ call_list_namespaces(p, NoKeys, DispatchFaults)
           \/ call_list_nodes(p, NoKeys, DispatchFaults)
           \/ call_describe_node(p, ArgsNode, DispatchFaults)
           \/ call_cluster_info(p, NoKeys, DispatchFaults)
           \/ call_list_pods_by_node(p, ArgsNamespace, DispatchFaults)

SpecReads == Init /\ [][NextReads]_vars


(* ------------------------------ the schemas ----------------------------- *)

\* The keys the schema list_tools publishes for a tool marks as required.
RequiredKeys(name) ==
    CASE name \in {"get_pod_logs", "describe_pod"} -> {"pod_name"}
      [] name = "scale_deployment" -> {"deployment_name", "replicas"}
      [] name = "restart_deployment" -> {"deployment_name"}
      [] name = "apply_yaml" -> {"yaml_content"}
      [] name = "get_yaml" -> {"kind", "name"}
      [] name = "describe_service" -> {"service_name"}
      [] name \in {"get_configmap", "get_secret", "create_namespace", "delete_namespace"}
           -> {"name"}
      [] name = "describe_node" -> {"node_name"}
      [] name \in {"describe_job", "delete_job"} -> {"job_name"}
      [] OTHER -> {}

\* The names of the tools list_tools returns, in the order it appends them.
PublishedNames ==
    {"list_pods", "get_pod_logs", "describe_pod",
     "list_deployments", "scale_deployment", "restart_deployment",
     "apply_yaml", "get_yaml",
     "list_events",
     "list_services", "describe_service",
     "list_configmaps", "get_configmap", "list_secrets", "get_secret",
     "list_namespaces", "create_namespace", "delete_namespace",
     "list_nodes", "describe_node", "cluster_info", "list_pods_by_node",
     "list_jobs", "describe_job", "list_cronjobs", "delete_job"}

\* The tools whose schema documents the default 'default' for namespace
\* ("defaults to 'default'" in the key's description).
NamespaceDefaulted ==
    {"list_pods", "get_pod_logs", "describe_pod", "list_deployments",
     "scale_deployment", "restart_deployment", "list_services", "describe_service",
     "list_configmaps", "get_configmap", "list_secrets", "get_secret",
     "list_jobs", "describe_job", "list_cronjobs", "delete_job"}

(* ------------------------------ properties ------------------------------ *)

Done(p) == inv[p].pc = "done"
ResultText(p) == inv[p].result[1].text
IsErrorExecuting(p) == ResultText(p).fmt = "Error executing tool {name}: {str(e)}"

\* C1: call_tool never raises; whatever the tool name, the argument bag and
\* the outcome of the external calls, an invocation that has ended returned
\* exactly one block, of type text.
C1_NeverRaises ==
    \A p \in Procs :
        /\ inv[p].pc # "raised"
        /\ Done(p) => /\ Len(inv[p].result) = 1
                      /\ inv[p].result[1].type = "text"
        /\ ~Done(p) => inv[p].result = <<>>

\* C1 witness: an exception reached the dispatcher (a required key was
\* absent) and was answered with one text block.
C1_Witness ==
    \E p \in Procs :
        /\ Done(p) /\ inv[p].name = "scale_deployment"
        /\ ~Has(inv[p].args, "replicas")
        /\ IsErrorExecuting(p)

\* C2: an invocation under a name no arm knows returns the text
\* "Unknown tool: <name>" and has issued no external call.
C2_UnknownTool ==
    \A p \in Procs :
        (Done(p) /\ inv[p].name \notin DispatchedNames) =>
            /\ inv[p].result = <<TextContent(Text("Unknown tool: {name}", <<inv[p].name>>))>>
            /\ inv[p].calls = <<>>
            /\ ~inv[p].tmp

\* C2 witness: the unregistered name "bogus" was answered.
C2_Witness ==
    \E p \in Procs : Done(p) /\ inv[p].name = "bogus" /\ Has(inv[p].args, "namespace")

\* C3: an invocation of a registered tool whose bag lacks a key the schema
\* requires returns the error text naming the tool and an absent required
\* key, and has issued no external call and created no file.
C3_MissingRequired ==
    \A p \in Procs :
        LET r == inv[p]
            missing == RequiredKeys(r.name) \ r.args.has
        IN  (r.pc # "idle" /\ r.name \in DispatchedNames /\ missing # {}) =>
                /\ Done(p)
                /\ IsErrorExecuting(p)
                /\ ResultText(p).holes[1] = r.name
                /\ \E k \in missing : ResultText(p).holes[2] = KeyErrorStr(k)
                /\ r.calls = <<>>
                /\ ~r.tmp

\* C3 witness: get_yaml was called with kind but without name.
C3_Witness ==
    \E p \in Procs :
        /\ Done(p) /\ inv[p].name = "get_yaml"
        /\ Has(inv[p].args, "kind") /\ ~Has(inv[p].args, "name")
        /\ ResultText(p).holes[2] = KeyErrorStr("name")

\* An invocation of the tool has ended, every key its schema requires was
\* in the bag, and every external call it issued was answered with 200.
EndedOk(p, name) ==
    /\ Done(p) /\ inv[p].name = name
    /\ RequiredKeys(name) \subseteq inv[p].args.has
    /\ \A i \in 1..Len(inv[p].calls) : inv[p].calls[i].status = 200

\* C4: scale_deployment(name, n, namespace) on an existing deployment, the
\* API accepting its calls, has sent exactly one patch, whose replica field
\* is n, and returns the success text with name, n and namespace as given;
\* whatever the API answered, it never sends a second patch nor a patch with
\* another replica count.
C4_ScalePatch ==
    \A p \in Procs :
        LET r == inv[p]
            d == r.args.val.deployment_name
            n == r.args.val.replicas
            ns == Get(r.args, "namespace", "default")
            patches == {i \in 1..Len(r.calls) : r.calls[i].api = "patch_namespaced_deployment"}
        IN  /\ (r.name = "scale_deployment" /\ r.pc # "idle") =>
                  /\ Cardinality(patches) <= 1
                  /\ \A i \in patches : /\ r.calls[i].arg[1] = ns
                                        /\ r.calls[i].arg[2] = d
                                        /\ r.calls[i].arg[3].replicas = n
            /\ (EndedOk(p, "scale_deployment") /\ <<ns, d>> \in DeployKeys) =>
                  /\ Cardinality(patches) = 1
                  /\ ResultText(p).fmt = "Successfully scaled deployment '{deployment_name}' to {replicas} replicas in namespace '{namespace}'"
                  /\ ResultText(p).holes = <<d, n, ns>>
                  /\ deploy[<<ns, d>>].replicas = n

\* C4 witness: a deployment of namespace dev read at 2 replicas was scaled to 1.
C4_Witness ==
    \E p \in Procs :
        /\ EndedOk(p, "scale_deployment")
        /\ Len(inv[p].calls) = 2
        /\ inv[p].dep.replicas = 2
        /\ inv[p].args.val.replicas = 1
        /\ Get(inv[p].args, "namespace", "default") = "dev"

\* The step is the return of an invocation of the tool by p, every required
\* key present and the API answering with one of the given statuses.
Returns(p, name, statuses) ==
    /\ inv'[p] # inv[p]
    /\ inv'[p].pc = "done" /\ inv'[p].name = name
    /\ RequiredKeys(name) \subseteq inv'[p].args.has
    /\ \A i \in 1..Len(inv'[p].calls) : inv'[p].calls[i].status \in statuses

\* C5: a create_namespace call the API answers without fault returns the
\* success text when the cluster does not hold the name, and then holds it;
\* it returns the "already exists" text, not the generic error text, and
\* changes nothing when the cluster holds the name; and the cluster keeps a
\* name until a delete_namespace call removes it.  So of the calls with one
\* name, with no deletion in between, the first succeeds and every later one
\* answers "already exists".
C5_CreateTwice ==
    [][ /\ \A p \in Procs :
              Returns(p, "create_namespace", {200, 409}) =>
                 LET name == inv'[p].args.val.name
                     text == inv'[p].result[1].text
                 IN  IF name \in namespaces
                     THEN /\ text.fmt = "Namespace '{name}' already exists"
                          /\ text.holes = <<name>>
                          /\ UNCHANGED <<deploy, namespaces, jobs, collections, files>>
                     ELSE /\ text.fmt = "Successfully created namespace '{name}'"
                          /\ text.holes = <<name>>
                          /\ namespaces' = namespaces \cup {name}
        /\ \A name \in namespaces \ namespaces' :
              \E p \in Procs : /\ Returns(p, "delete_namespace", {200})
                               /\ inv'[p].args.val.name = name
      ]_vars

\* C5 witness: a second create_namespace("team-a") was answered "already exists".
C5_Witness ==
    \E p \in Procs :
        /\ Done(p) /\ inv[p].name = "create_namespace"
        /\ inv[p].args.val.name = "team-a" /\ Has(inv[p].args, "name")
        /\ inv[p].calls[1].status = 409
        /\ ResultText(p).fmt = "Namespace '{name}' already exists"
        /\ "team-a" \in namespaces

\* The text is empty, or holds nothing but document starts and single nulls.
EmptyOrAllNull(c) ==
    /\ \A i \in 1..Len(c) : c[i] \in {"---", "~"}
    /\ \A i \in 1..(Len(c) - 1) : ~(c[i] = "~" /\ c[i + 1] = "~")
\* The text has a syntax error: an open flow mapping, or a scalar line next
\* to a mapping line of the same document.
Malformed(c) ==
    \/ \E i \in 1..Len(c) : c[i] = "{"
    \/ \E i \in 1..(Len(c) - 1) : {c[i], c[i + 1]} = {"~", "a: 1"}

\* C6: apply_yaml on a text that is empty, whose documents are all null or
\* that is malformed ends at once with a validation or syntax error text; it
\* never creates a transient file and never runs kubectl.
C6_ApplyRejects ==
    \A p \in Procs :
        LET r == inv[p]
            c == r.args.val.yaml_content
        IN  (r.name = "apply_yaml" /\ r.pc # "idle" /\ Has(r.args, "yaml_content")
               /\ (EmptyOrAllNull(c) \/ Malformed(c))) =>
                /\ Done(p)
                /\ ResultText(p).fmt = IF Malformed(c)
                                       THEN "[x] YAML parsing error: {str(e)}"
                                       ELSE "[x] Error: No valid resources found in YAML"
                /\ r.calls = <<>>
                /\ ~r.tmp

\* C6 witness: a text of two null documents was rejected.
C6_Witness ==
    \E p \in Procs :
        /\ Done(p) /\ inv[p].name = "apply_yaml" /\ Has(inv[p].args, "yaml_content")
        /\ inv[p].args.val.yaml_content = <<"---", "---">>
        /\ ResultText(p).fmt = "[x] Error: No valid resources found in YAML"

\* C7: get_yaml for a supported kind with no namespace (the key absent, None
\* or the empty string) returns "Namespace required for <kind> resources"
\* and has issued no call.
C7_NamespaceRequired ==
    \A p \in Procs :
        LET r == inv[p]
            kind == r.args.val.kind
        IN  (r.name = "get_yaml" /\ r.pc # "idle" /\ RequiredKeys("get_yaml") \subseteq r.args.has
               /\ IsSupported(kind)
               /\ (~Has(r.args, "namespace") \/ r.args.val.namespace \in {NoneVal, ""})) =>
                /\ Done(p)
                /\ ResultText(p).fmt = "Namespace required for {kind} resources"
                /\ ResultText(p).holes = <<kind>>
                /\ r.calls = <<>>

\* C7 witness: get_yaml("Secret", "web", namespace="") was answered.
C7_Witness ==
    \E p \in Procs :
        /\ Done(p) /\ inv[p].name = "get_yaml"
        /\ inv[p].args.has = {"kind", "name", "namespace"}
        /\ inv[p].args.val.kind = "Secret" /\ inv[p].args.val.namespace = ""
        /\ ResultText(p).fmt = "Namespace required for {kind} resources"

\* The first of an event's three timestamps that is set.
FirstNonNull(e) ==
    LET ts == <<e.first_timestamp, e.event_time, e.creation_timestamp>>
    IN  ts[CHOOSE i \in 1..3 : ts[i] # NoTs /\ \A j \in 1..(i - 1) : ts[j] = NoTs]

\* The record an event at position k of a list is rendered as.
RecordOf(list, k) == [timestamp |-> FirstNonNull(list[k]), name |-> k]

\* Record a comes before record b: it is more recent, or as recent and
\* earlier in API order.
Precedes(a, b) ==
    \/ a.timestamp > b.timestamp
    \/ a.timestamp = b.timestamp /\ a.name < b.name

\* The records are events of the list, most recent first and equal
\* timestamps in API order, and no event of the list left out comes before
\* a rendered one.
IsLeadingOf(records, list) ==
    /\ \A i \in 1..Len(records) :
          /\ records[i].name \in 1..Len(list)
          /\ records[i] = RecordOf(list, records[i].name)
    /\ \A i, j \in 1..Len(records) : i < j => Precedes(records[i], records[j])
    /\ \A k \in 1..Len(list) :
          (\A i \in 1..Len(records) : records[i].name # k) =>
              \A i \in 1..Len(records) : Precedes(records[i], RecordOf(list, k))

\* C8: list_events renders the events the API returned most recent first by
\* their effective timestamp (the first set one of first_timestamp,
\* event_time, creation_timestamp), events of equal timestamp in the order
\* the API returned them; when the limit does not cut the list, every
\* returned event is rendered.
C8_SortedStable ==
    \A p \in Procs :
        LET r == inv[p]
            limit == Get(r.args, "limit", 50)
        IN  (EndedOk(p, "list_events") /\ r.calls[1].resp # <<>>) =>
                /\ ResultText(p).fmt = "Recent events in {scope} (showing {len(sorted_events)}):"
                /\ IsLeadingOf(ResultText(p).holes[3], r.calls[1].resp)
                /\ limit >= Len(r.calls[1].resp) =>
                       Len(ResultText(p).holes[3]) = Len(r.calls[1].resp)

\* C8 witness: three events were rendered, two of them of one timestamp, one
\* of these dated by a fallback timestamp.
C8_Witness ==
    \E p \in Procs :
        /\ EndedOk(p, "list_events") /\ Len(inv[p].calls[1].resp) = 3
        /\ Len(ResultText(p).holes[3]) = 3
        /\ \E i \in 1..2 :
              LET a == ResultText(p).holes[3][i]
                  b == ResultText(p).holes[3][i + 1]
              IN  /\ a.timestamp = b.timestamp
                  /\ inv[p].calls[1].resp[a.name].first_timestamp = NoTs

\* C9: list_events with limit k >= 0 on a collection of events renders the k
\* events of the collection with the greatest effective timestamps (all of
\* them when there are fewer), most recent first.
C9_TopK ==
    \A p \in Procs :
        LET r == inv[p]
            limit == Get(r.args, "limit", 50)
            all == EventsOf(GetOrNone(r.args, "namespace"))
        IN  (EndedOk(p, "list_events") /\ limit >= 0 /\ all # <<>>) =>
                /\ ResultText(p).fmt = "Recent events in {scope} (showing {len(sorted_events)}):"
                /\ Len(ResultText(p).holes[3]) = Min(limit, Len(all))
                /\ IsLeadingOf(ResultText(p).holes[3], all)

\* C10: for every value of limit, list_events renders at most limit records.
C10_AtMostLimit ==
    \A p \in Procs :
        (EndedOk(p, "list_events") /\ inv[p].calls[1].resp # <<>>) =>
            Len(ResultText(p).holes[3]) <= Get(inv[p].args, "limit", 50)

\* C11: list_pods_by_node renders exactly one section for every node of the
\* node list, the sections in lexicographic order of node name whatever the
\* order the API listed nodes and pods in; a node none of the listed pods
\* (those left by the namespace filter) is assigned to has the "Pods: None"
\* marker, any other section lists the pods assigned to it.
C11_SectionPerNode ==
    \A p \in Procs :
        LET r == inv[p]
            ns == GetOrNone(r.args, "namespace")
            kept == {j \in 1..Len(pods) : ns \in {NoneVal, ""} \/ pods[j].namespace = ns}
        IN  (EndedOk(p, "list_pods_by_node") /\ nodes # <<>>) =>
              /\ ResultText(p).fmt = "Pods by Node ({scope}):"
              /\ \A i \in 1..Len(nodes) :
                    Cardinality({k \in 1..Len(ResultText(p).holes[2]) :
                                   ResultText(p).holes[2][k].node = nodes[i].name}) = 1
              /\ \A k, l \in 1..Len(ResultText(p).holes[2]) :
                    k < l => NameRank(ResultText(p).holes[2][k].node)
                               < NameRank(ResultText(p).holes[2][l].node)
              /\ \A k \in 1..Len(ResultText(p).holes[2]) :
                    LET sec == ResultText(p).holes[2][k]
                        mine == {j \in kept : pods[j].node_name = sec.node}
                    IN  /\ (sec.pods_line = "  Pods: None") = (mine = {})
                        /\ {sec.pods[j].name : j \in 1..Len(sec.pods)} = mine
                        /\ Len(sec.pods) = Cardinality(mine)

\* C11 witness: the API listed node-c before node-a, the filter on namespace
\* dev removed the only pod of node-c, and node-a came first in the output.
C11_Witness ==
    \E p \in Procs :
        /\ EndedOk(p, "list_pods_by_node")
        /\ GetOrNone(inv[p].args, "namespace") = "dev"
        /\ Len(nodes) = 2 /\ nodes[1].name = "node-c" /\ nodes[2].name = "node-a"
        /\ \E j \in 1..Len(pods) : pods[j].node_name = "node-c" /\ pods[j].namespace = "default"
        /\ ~ \E j \in 1..Len(pods) : pods[j].node_name = "node-c" /\ pods[j].namespace = "dev"
        /\ Len(ResultText(p).holes[2]) = 2
        /\ ResultText(p).holes[2][1].node = "node-a"
        /\ ResultText(p).holes[2][2].pods_line = "  Pods: None"

\* C12: cluster_info counts as control-plane exactly the nodes whose labels
\* hold the key node-role.kubernetes.io/control-plane or
\* node-role.kubernetes.io/master, whatever the value, counts every other
\* node (one without labels too) as worker, and the two counts sum to the
\* total it reports, which is the number of nodes.
C12_RoleCounts ==
    \A p \in Procs :
        LET roleKeys == {"node-role.kubernetes.io/control-plane",
                         "node-role.kubernetes.io/master"}
            cp == {i \in 1..Len(nodes) : \E kv \in nodes[i].labels : kv[1] \in roleKeys}
        IN  EndedOk(p, "cluster_info") =>
              /\ ResultText(p).fmt = "Cluster Information:"
              /\ ResultText(p).holes[1] = Len(nodes)
              /\ ResultText(p).holes[2] = Cardinality(cp)
              /\ ResultText(p).holes[3] = Len(nodes) - Cardinality(cp)
              /\ ResultText(p).holes[2] + ResultText(p).holes[3] = ResultText(p).holes[1]

\* C12 witness: of two nodes, one with the control-plane label of empty
\* value and one without labels, one was counted control-plane, one worker.
C12_Witness ==
    \E p \in Procs :
        /\ EndedOk(p, "cluster_info")
        /\ Len(nodes) = 2
        /\ nodes[1].labels = {} /\ nodes[2].labels = {<<ControlPlaneLabel, "">>}
        /\ ResultText(p).holes[2] = 1 /\ ResultText(p).holes[3] = 1

\* The collection a list operation asks the cluster for is empty (for
\* list_pods_by_node: no node, and no pod left by the filter).
EmptyCollection(name, args) ==
    LET ns == Get(args, "namespace", "default")
        opt == GetOrNone(args, "namespace")
    IN  CASE name = "list_pods" ->
               ~ \E j \in 1..Len(pods) : ns \in {NoneVal, ""} \/ pods[j].namespace = ns
          [] name = "list_deployments" -> ~ \E k \in DOMAIN deploy : k[1] = ns
          [] name = "list_services" -> ~ \E o \in OtherObjects : o[1] = "Service" /\ o[2] = ns
          [] name = "list_namespaces" -> namespaces = {}
          [] name = "list_nodes" -> nodes = <<>>
          [] name = "list_events" -> events = <<>> \/ opt \notin {NoneVal, "", "default"}
          [] name = "list_pods_by_node" ->
               /\ nodes = <<>>
               /\ ~ \E j \in 1..Len(pods) : opt \in {NoneVal, ""} \/ pods[j].namespace = opt
          [] OTHER -> FALSE

\* The line each list operation answers an empty collection with.
NoneFoundLine(name, args) ==
    CASE name = "list_pods" -> "No pods found in namespace '{namespace}'"
      [] name = "list_deployments" -> "No deployments found in namespace '{namespace}'"
      [] name = "list_services" -> "No services found in namespace '{namespace}'"
      [] name = "list_namespaces" -> "No namespaces found"
      [] name = "list_nodes" -> "No nodes found in cluster"
      [] name = "list_events" -> "No events found in {scope}"
      [] OTHER -> "No nodes or pods found"

\* C13: each of list_pods, list_deployments, list_services, list_namespaces,
\* list_nodes, list_events and list_pods_by_node, when the API returns an
\* empty collection, returns its one "No ... found" line, never the empty
\* string and never a header with nothing under it.
C13_EmptyLists ==
    \A p \in Procs :
        LET r == inv[p]
        IN  (r.pc = "done" /\ EmptyCollection(r.name, r.args)
               /\ \A i \in 1..Len(r.calls) : r.calls[i].status = 200) =>
              /\ ResultText(p).fmt = NoneFoundLine(r.name, r.args)
              /\ ResultText(p).fmt # ""
              /\ Len(ResultText(p).holes) <= 1

\* C13 witness: list_pods_by_node on a cluster without nodes, whose only pod
\* the namespace filter removed, answered "No nodes or pods found".
C13_Witness ==
    \E p \in Procs :
        /\ EndedOk(p, "list_pods_by_node")
        /\ GetOrNone(inv[p].args, "namespace") = "dev"
        /\ nodes = <<>> /\ Len(pods) = 1
        /\ pods[1].node_name = "node-a" /\ pods[1].namespace = "default"
        /\ ResultText(p).fmt = "No nodes or pods found"

\* The names of the operations of src/ that call the cluster API.
ApiOperations == DispatchedNames \ {"apply_yaml", "list_configmaps", "get_configmap",
                                    "list_secrets", "get_secret", "list_jobs",
                                    "describe_job", "list_cronjobs", "delete_job"}

\* The generic texts, which carry the reason and the body of the failure.
GenericErrors ==
    {"Error listing pods: {e.reason} - {e.body}", "Error getting logs: {e.reason} - {e.body}",
     "Error describing pod: {e.reason} - {e.body}",
     "Error listing deployments: {e.reason} - {e.body}",
     "Error scaling deployment: {e.reason} - {e.body}",
     "Error restarting deployment: {e.reason} - {e.body}",
     "Error getting resource: {e.reason} - {e.body}",
     "Error listing events: {e.reason} - {e.body}",
     "Error listing services: {e.reason} - {e.body}",
     "Error describing service: {e.reason} - {e.body}",
     "Error listing namespaces: {e.reason} - {e.body}",
     "Error creating namespace: {e.reason} - {e.body}",
     "Error deleting namespace: {e.reason} - {e.body}",
     "Error listing nodes: {e.reason} - {e.body}",
     "Error describing node: {e.reason} - {e.body}",
     "Error listing pods by node: {e.reason} - {e.body}",
     "Error getting cluster info: {e.reason} - {e.body}"}

\* C14: every operation that calls the cluster API tells a 404 apart: the
\* Result of an invocation whose call failed with 404 is not the generic
\* text (reason and body) the operation returns for any other failure.
C14_NotFoundDistinct ==
    \A p \in Procs :
        (/\ Done(p) /\ inv[p].name \in ApiOperations
         /\ \E i \in 1..Len(inv[p].calls) : inv[p].calls[i].status = 404) =>
            ResultText(p).fmt \notin GenericErrors

\* C15: when apply_yaml has returned and its invocation had created the
\* transient file, that file no longer exists.
C15_FileRemoved ==
    \A p \in Procs :
        (Done(p) /\ inv[p].name = "apply_yaml" /\ inv[p].tmp) => p \notin files

\* C16: apply_yaml reports each outcome of kubectl with a text of its own:
\* the success text with standard output for exit code 0, the failure text
\* with standard error for a non-zero exit, the timeout text when the 60
\* seconds are exceeded, the command-not-found text when kubectl is not on
\* the path; the last two are not the "Unexpected error" text.
C16_KubectlOutcomes ==
    \A p \in Procs :
        (Done(p) /\ inv[p].name = "apply_yaml" /\ inv[p].calls # <<>>) =>
            LET rc == inv[p].calls[1].status
                text == ResultText(p)
            IN  /\ Len(inv[p].calls) = 1
                /\ rc = 0 => /\ text.fmt = "[v] Successfully applied YAML:{result.stdout}"
                             /\ text.holes = <<"stdout">>
                /\ rc = 1 => /\ text.fmt = "[x] Error applying YAML:{result.stderr}"
                             /\ text.holes = <<"stderr">>
                /\ rc = 124 => text.fmt = "[x] Error: kubectl apply timed out after 60 seconds"
                /\ rc = 127 => text.fmt = "[x] Error: kubectl command not found. Make sure kubectl is installed and in PATH."
                /\ rc \in {124, 127} => text.fmt # "[x] Unexpected error: {str(e)}"

\* C16 witness: a kubectl run that exceeded its time was reported as a timeout.
C16_Witness ==
    \E p \in Procs :
        /\ Done(p) /\ inv[p].name = "apply_yaml" /\ inv[p].calls # <<>>
        /\ inv[p].calls[1].status = 124
        /\ ResultText(p).fmt = "[x] Error: kubectl apply timed out after 60 seconds"

\* An external call failed: kubectl ended otherwise than with exit code 0,
\* or the API answered otherwise than with success.
Failed(call) ==
    IF call.api = "kubectl apply -f" THEN call.status # 0 ELSE call.status # 200

\* The texts that report a failed external call.
FailureTexts ==
    GenericErrors \cup
    {"Deployment '{deployment_name}' not found in namespace '{namespace}'",
     "Namespace '{name}' already exists", "Namespace '{name}' not found",
     "Resource {kind}/{name} not found in namespace '{namespace}'",
     "Pod '{pod_name}' not found in namespace '{namespace}'",
     "Service '{service_name}' not found in namespace '{namespace}'",
     "Node '{node_name}' not found",
     "[x] Error applying YAML:{result.stderr}",
     "[x] Error: kubectl apply timed out after 60 seconds",
     "[x] Error: kubectl command not found. Make sure kubectl is installed and in PATH.",
     "[x] Unexpected error: {str(e)}"}

\* C17: no operation retries.  At any moment of an invocation, no external
\* call has been issued twice, at most two calls have been issued (one when
\* it is the kubectl run), and a failed call is the last one: the invocation
\* has returned, with a text that reports the failure.
C17_NoRetry ==
    \A p \in Procs :
        LET calls == inv[p].calls
        IN  /\ Len(calls) <= 2
            /\ \A i, j \in 1..Len(calls) : i < j => calls[i].api # calls[j].api
            /\ \A i \in 1..Len(calls) :
                  /\ calls[i].api = "kubectl apply -f" => Len(calls) = 1
                  /\ Failed(calls[i]) =>
                        /\ i = Len(calls)
                        /\ Done(p)
                        /\ Len(inv[p].result) = 1
                        /\ ResultText(p).fmt \in FailureTexts

\* C17 witness: scale_deployment read the deployment, its patch failed with
\* 500, and it returned the generic error after these two calls.
C17_Witness ==
    \E p \in Procs :
        /\ Done(p) /\ inv[p].name = "scale_deployment"
        /\ Len(inv[p].calls) = 2
        /\ inv[p].calls[1].status = 200 /\ inv[p].calls[2].status = 500
        /\ ResultText(p).fmt = "Error scaling deployment: {e.reason} - {e.body}"

\* The callers whose invocation of the tool on deployment k succeeded.
Succeeded(name, k) ==
    {p \in Procs : /\ EndedOk(p, name) /\ Len(inv[p].calls) = 2
                   /\ <<Get(inv[p].args, "namespace", "default"),
                        inv[p].args.val.deployment_name>> = k}

C19_NotStalled ==
    \A p, q \in Procs :
        (p # q /\ inv[p].pc = "apply_run" /\ inv[q].pc = "idle") => ENABLED Serve(q)

C21_Defaults ==
    \A p \in Procs :
        (inv[p].pc # "idle" /\ inv[p].calls # <<>>) =>
            LET name == inv[p].name
                args == inv[p].args
                call == inv[p].calls[1]
            IN  /\ (name \in NamespaceDefaulted /\ ~Has(args, "namespace")) =>
                       call.arg[1] = "default"
                /\ (name = "get_pod_logs" /\ ~Has(args, "tail")) => call.arg[3] = 100
                /\ (name = "list_events" /\ ~Has(args, "limit")) => call.arg[2] = 50
                /\ (/\ name = "get_secret" /\ ~Has(args, "decode")
                    /\ EndedOk(p, name) /\ ~IsErrorExecuting(p)) =>
                       ResultText(p).holes[3] = TRUE
                /\ (name = "list_pods" /\ ~Has(args, "namespace")) =>
                       /\ call.api = "list_namespaced_pod"
                       /\ call.status = 200 => call.resp = InNamespace(pods, "default")

\* C21 witness: list_pods was invoked with an empty bag on a cluster holding
\* a pod outside "default", and the API answered.
C21_Witness ==
    /\ EndedOk(1, "list_pods")
    /\ inv[1].args.has = {}
    /\ \E i \in 1..Len(pods) : pods[i].namespace # "default"
    /\ Len(inv[1].calls[1].resp) < Len(pods)

\* The Result reports a key the bag lacks: the KeyError of a subscript read,
\* or get_yaml's answer to a namespace that was not given.
MissingArgumentError(p) ==
    \/ /\ IsErrorExecuting(p)
       /\ \E k \in RequiredKeys(inv[p].name) \ inv[p].args.has :
              ResultText(p).holes[2] = KeyErrorStr(k)
    \/ /\ ResultText(p).fmt = "Namespace required for {kind} resources"
       /\ ~Has(inv[p].args, "namespace")

\* C22: the registry and the dispatcher agree.  The names list_tools
\* publishes are the names call_tool dispatches, no published name is
\* answered with "Unknown tool", and an invocation of a published tool
\* returns an error for an absent key exactly when its bag lacks a key the
\* schema marks as required.
C22_RegistryAgrees ==
    /\ PublishedNames = DispatchedNames
    /\ \A p \in Procs :
          (Done(p) /\ inv[p].name \in PublishedNames) =>
              /\ ResultText(p).fmt # "Unknown tool: {name}"
              /\ MissingArgumentError(p) <=>
                     (RequiredKeys(inv[p].name) \ inv[p].args.has # {})

\* The deployment an invocation of scale or restart names.
TargetOf(p) == <<Get(inv[p].args, "namespace", "default"), inv[p].args.val.deployment_name>>

\* The step is the patch call of p's scale invocation, and the API accepted it.
ScalePatchAccepted(p) ==
    /\ inv[p].pc = "scale_patch" /\ inv'[p].pc = "done"
    /\ Len(inv'[p].calls) = 2
    /\ inv'[p].calls[2].status = 200

\* C23: scale_deployment does not detect a concurrent mutation and the last
\* patch wins.  An invocation that read an existing deployment and whose
\* calls the API accepted returns the success text, whatever was done to the
\* deployment between its read and its patch; and every accepted patch
\* leaves the deployment with the count that patch carries, so the final
\* count is that of the patch sent last.
C23_LastWriteWins ==
    /\ [](\A p \in Procs :
            (EndedOk(p, "scale_deployment") /\ TargetOf(p) \in DeployKeys) =>
                /\ Len(inv[p].calls) = 2
                /\ ResultText(p) = ScaleSuccess(inv[p].args.val.deployment_name,
                                                inv[p].args.val.replicas,
                                                Get(inv[p].args, "namespace", "default")))
    /\ [][\A p \in Procs :
            ScalePatchAccepted(p) =>
                deploy'[TargetOf(p)].replicas = inv[p].args.val.replicas]_vars

\* C23 witness: both callers read default/web at 2 replicas before either
\* patched, one scaled it to 0 and the other to 1, both report success, and
\* the deployment holds one of the two counts.
C23_Witness ==
    /\ EndedOk(1, "scale_deployment") /\ EndedOk(2, "scale_deployment")
    /\ TargetOf(1) = <<"default", "web">> /\ TargetOf(2) = <<"default", "web">>
    /\ inv[1].dep.replicas = 2 /\ inv[2].dep.replicas = 2
    /\ inv[1].args.val.replicas = 0 /\ inv[2].args.val.replicas = 1
    /\ ResultText(1).holes[2] = 0 /\ ResultText(2).holes[2] = 1
    /\ deploy[<<"default", "web">>].replicas = 0

\* The step is the patch call of p's restart invocation, and the API accepted it.
RestartPatchAccepted(p) ==
    /\ inv[p].pc = "restart_patch" /\ inv'[p].pc = "done"
    /\ Len(inv'[p].calls) = 2
    /\ inv'[p].calls[2].status = 200

\* C24: restart_deployment changes only the restart annotation.  The step
\* that applies its patch leaves the desired replica count of the
\* deployment as the cluster held it just before the step, also when another
\* invocation changed the count after restart's read, and leaves every
\* other deployment alone.
C24_RestartFrame ==
    [][\A p \in Procs :
          RestartPatchAccepted(p) =>
              /\ deploy'[TargetOf(p)].replicas = deploy[TargetOf(p)].replicas
              /\ \A k \in DeployKeys \ {TargetOf(p)} : deploy'[k] = deploy[k]]_vars

\* The invocation has issued a patch call.
Patched(r) == \E i \in 1..Len(r.calls) : r.calls[i].api = "patch_namespaced_deployment"

\* C25: a failed read is the end of scale_deployment and restart_deployment,
\* and so is a failure of restart's annotation step.  Such an invocation has
\* returned, with the not-found text when the read was answered 404, it has
\* issued no patch call, and the step in which an invocation ends without a
\* patch call leaves the cluster as it was.
C25_ReadFailure ==
    /\ [](\A p \in Procs :
            LET r == inv[p]
            IN  (/\ r.name \in {"scale_deployment", "restart_deployment"}
                 /\ r.calls # <<>>) =>
                    /\ r.calls[1].status # 200 =>
                          /\ Done(p)
                          /\ Len(r.calls) = 1
                          /\ r.calls[1].status = 404 =>
                                ResultText(p) =
                                    DeploymentNotFound(r.args.val.deployment_name,
                                                       Get(r.args, "namespace", "default"))
                    /\ (Done(p) /\ ResultText(p).fmt = "Unexpected error: {str(e)}") =>
                          ~Patched(r))
    /\ [][\A p \in Procs :
            (/\ inv[p].pc # "done" /\ inv'[p].pc = "done"
             /\ inv'[p].name \in {"scale_deployment", "restart_deployment"}
             /\ ~Patched(inv'[p])) =>
                UNCHANGED <<deploy, namespaces, jobs, collections, files>>]_vars

\* C25 witness: caller 1 scaled a deployment that does not exist and was
\* told so after one call; caller 2's restart read default/web and failed
\* at the annotation, and the deployment is as it was.
C25_Witness ==
    /\ Done(1) /\ inv[1].name = "scale_deployment"
    /\ Len(inv[1].calls) = 1 /\ inv[1].calls[1].status = 404
    /\ ResultText(1) = DeploymentNotFound("ghost", "default")
    /\ Done(2) /\ inv[2].name = "restart_deployment"
    /\ Len(inv[2].calls) = 1 /\ inv[2].calls[1].status = 200
    /\ ResultText(2).fmt = "Unexpected error: {str(e)}"
    /\ deploy[<<"default", "web">>] = [replicas |-> 2, restartedAt |-> 0]

\* C26: list_nodes and cluster_info agree on roles.  In the Result of
\* list_nodes no node that cluster_info's test counts as control-plane (it
\* carries one of the two role labels, whatever the value) has the role
\* line "Role: worker".
C26_RolesAgree ==
    \A p \in Procs :
        EndedOk(p, "list_nodes") =>
            \A i \in 1..Len(nodes) :
                IsControlPlane(nodes[i].labels) =>
                    ResultText(p).holes[1][i].role # "worker"

\* C27: in a Result of list_events that renders events, the number the
\* header announces ("showing N") is the number of event records below it.
C27_ShowingCount ==
    \A p \in Procs :
        (/\ EndedOk(p, "list_events")
         /\ ResultText(p).fmt = "Recent events in {scope} (showing {len(sorted_events)}):") =>
            ResultText(p).holes[2] = Len(ResultText(p).holes[3])

\* C28: list_pods_by_node lists every pod once, under its node.  A pod
\* that is assigned to a node and passes the namespace filter (None and ""
\* are no filter) appears in exactly one section, the one of its node; a pod
\* without a node or of another namespace appears in none; the count of a
\* "Pods (n)" header is the number of pods listed under it; and the answer
\* "No nodes or pods found" is only given when no pod is to be listed.
C28_PodsGrouped ==
    \A p \in Procs :
        LET r == inv[p]
            ns == GetOrNone(r.args, "namespace")
            listed == {j \in 1..Len(pods) :
                         /\ Truthy(pods[j].node_name)
                         /\ ~Truthy(ns) \/ pods[j].namespace = ns}
        IN  EndedOk(p, "list_pods_by_node") =>
              IF ResultText(p).fmt = "No nodes or pods found" THEN listed = {}
              ELSE LET secs == ResultText(p).holes[2]
                       At(j) == {km \in (1..Len(secs)) \X (1..Len(pods)) :
                                    /\ km[2] <= Len(secs[km[1]].pods)
                                    /\ secs[km[1]].pods[km[2]].name = pods[j].name}
                   IN  /\ \A j \in 1..Len(pods) :
                             IF j \in listed
                             THEN /\ Cardinality(At(j)) = 1
                                  /\ \A km \in At(j) : secs[km[1]].node = pods[j].node_name
                             ELSE At(j) = {}
                       /\ \A k \in 1..Len(secs) :
                             secs[k].pods # <<>> =>
                                 /\ secs[k].pods_line = "  Pods ({len(node_pods)}):"
                                 /\ secs[k].count = Len(secs[k].pods)

\* C28 witness: with the filter on namespace dev, of two pods assigned to
\* node-a the one of dev is listed under node-a with count 1, and the one
\* of default is left out.
C28_Witness ==
    \E p \in Procs :
        /\ EndedOk(p, "list_pods_by_node")
        /\ GetOrNone(inv[p].args, "namespace") = "dev"
        /\ Len(pods) = 2
        /\ pods[1].node_name = "node-a" /\ pods[1].namespace = "dev"
        /\ pods[2].node_name = "node-a" /\ pods[2].namespace = "default"
        /\ \E k \in 1..Len(ResultText(p).holes[2]) :
              /\ ResultText(p).holes[2][k].node = "node-a"
              /\ ResultText(p).holes[2][k].count = 1
              /\ ResultText(p).holes[2][k].pods[1].name = 1

====
